---- MODULE Spec2Model ----
(***************************************************************************)
(* Song Clock audio engines.                                               *)
(*                                                                         *)
(* The module models the host page (SongClock), the pitch tables of        *)
(* utils/audio-utils.ts, the persistent-oscillator AudioEngine and the     *)
(* note-per-tick AudioEngine of components/audio-engine.tsx.  Every Web    *)
(* Audio automation call an effect issues is recorded per channel in the   *)
(* variable calls, for the step that issued it.                            *)
(*                                                                         *)
(* Units: a channel volume v stands for v / VolSteps, the master volume m  *)
(* for m / MasterSteps, a gain value g for g / GainOne, a frequency f for  *)
(* f / 100 Hz and a duration d for d milliseconds.                         *)
(***************************************************************************)
EXTENDS Integers, Sequences, FiniteSets, TLC

\* ------------------------------------------------------------------ bounds
VolSteps == 1
MasterSteps == 2
MaxHour == 2
MaxMinute == 11
MaxSecond == 11
MaxQuarter == 1

\* one unit of gain: 1.0 = GainOne
GainOne == 10 * VolSteps * MasterSteps

Min(a, b) == IF a < b THEN a ELSE b
\* the quarter of its second a millisecond reading falls in
Quarter(ms) == ms \div 250

Layers == {"reference", "hour", "minute", "second"}
Channels == {"reference", "hour", "minuteTens", "minuteOnes", "secondTens", "secondOnes"}
LayerOf(ch) ==
  CASE ch = "reference" -> "reference"
    [] ch = "hour" -> "hour"
    [] ch \in {"minuteTens", "minuteOnes"} -> "minute"
    [] OTHER -> "second"

\* ------------------------------------------------------------ pitch tables
NOTE_FREQUENCIES ==
  [C3 |-> 13081, D3 |-> 14683, E3 |-> 16481, F3 |-> 17461, G3 |-> 19600,
   A3 |-> 22000, B3 |-> 24694, C4 |-> 26163, D4 |-> 29366, E4 |-> 32963,
   F4 |-> 34923, G4 |-> 39200, A4 |-> 44000, B4 |-> 49388, C5 |-> 52325,
   D5 |-> 58733, E5 |-> 65925, F5 |-> 69846, G5 |-> 78399, A5 |-> 88000,
   B5 |-> 98777, C6 |-> 104650, D6 |-> 117466]

\* a JavaScript array read: an index outside the array yields undefined
ArrayAt(arr, i) == IF i \in 0..(Len(arr) - 1) THEN arr[i + 1] ELSE "undefined"

getNoteFrequency(noteName) ==
  IF noteName \in DOMAIN NOTE_FREQUENCIES THEN NOTE_FREQUENCIES[noteName] ELSE 44000

HOUR_NOTES == <<"C4", "C4", "D4", "E4", "F4", "G4", "A4", "B4", "C5", "D5", "E5", "F5", "G5">>
MINUTE_TENS_NOTES == <<"C4", "C4", "D4", "E4", "F4", "G4">>
MINUTE_ONES_NOTES == <<"C4", "C4", "D4", "E4", "F4", "G4", "A4", "B4", "C5", "D5">>
SECOND_TENS_NOTES == <<"C5", "C5", "D5", "E5", "F5", "G5">>
SECOND_ONES_NOTES == <<"C5", "C5", "D5", "E5", "F5", "G5", "A5", "B5", "C6", "D6">>

\* getTimeNote reading the hour table at the bare value, hour 0 not read as 12
getTimeNoteNoAlias(component, value) ==
  CASE component = "hour" -> ArrayAt(HOUR_NOTES, value)
    [] component \in {"minuteTens", "minuteOnes"} -> "C4"
    [] OTHER -> "C5"

getTimeNote(component, value) ==
  CASE component = "hour" -> ArrayAt(HOUR_NOTES, IF value = 0 THEN 12 ELSE value)
    [] component = "minuteTens" ->
         IF value > 0 /\ value < Len(MINUTE_TENS_NOTES) THEN ArrayAt(MINUTE_TENS_NOTES, value) ELSE "C4"
    [] component = "minuteOnes" ->
         IF value > 0 /\ value < Len(MINUTE_ONES_NOTES) THEN ArrayAt(MINUTE_ONES_NOTES, value) ELSE "C4"
    [] component = "secondTens" ->
         IF value > 0 /\ value < Len(SECOND_TENS_NOTES) THEN ArrayAt(SECOND_TENS_NOTES, value) ELSE "C5"
    [] component = "secondOnes" ->
         IF value > 0 /\ value < Len(SECOND_ONES_NOTES) THEN ArrayAt(SECOND_ONES_NOTES, value) ELSE "C5"
    [] OTHER -> "C4"

\* tables local to components/audio-engine.tsx
hourNotes == <<"C3", "C3", "D3", "E3", "F3", "G3", "A3", "B3", "C4", "D4", "E4", "F4", "G4">>
getHourNote(hour) == ArrayAt(hourNotes, IF hour = 0 THEN 12 ELSE hour)
getMinuteTensNote(tens) ==
  IF tens = 0 THEN "C4" ELSE ArrayAt(<<"C4", "C4", "D4", "E4", "F4", "G4">>, tens)
getMinuteOnesNote(ones) ==
  IF ones = 0 THEN "C4"
  ELSE ArrayAt(<<"C4", "C4", "D4", "E4", "F4", "G4", "A4", "B4", "C5", "D5">>, ones)
getSecondTensNote(tens) ==
  IF tens = 0 THEN "C5" ELSE ArrayAt(<<"C5", "C5", "D5", "E5", "F5", "G5">>, tens)
getSecondOnesNote(ones) ==
  IF ones = 0 THEN "C5"
  ELSE ArrayAt(<<"C5", "C5", "D5", "E5", "F5", "G5", "A5", "B5", "C6", "D6">>, ones)

\* the interval reference guide shown to the user (hour -> note)
hourIntervals ==
  [h \in 1..12 |->
     CASE h = 1 -> "C3" [] h = 2 -> "D3" [] h = 3 -> "E3" [] h = 4 -> "F3"
       [] h = 5 -> "G3" [] h = 6 -> "A3" [] h = 7 -> "B3" [] h = 8 -> "C4"
       [] h = 9 -> "D4" [] h = 10 -> "E4" [] h = 11 -> "F4" [] OTHER -> "G4"]

\* the same guide of the page whose engine plays the transposed hour table
hourIntervalsTransposed ==
  [h \in 1..12 |->
     CASE h = 1 -> "C4" [] h = 2 -> "D4" [] h = 3 -> "E4" [] h = 4 -> "F4"
       [] h = 5 -> "G4" [] h = 6 -> "A4" [] h = 7 -> "B4" [] h = 8 -> "C5"
       [] h = 9 -> "D5" [] h = 10 -> "E5" [] h = 11 -> "F5" [] OTHER -> "G5"]

\* ------------------------------------------------------------------- state
VARIABLES
  \* SongClock (host page) state, handed to the engine as props
  hours, minutes, seconds, milliseconds, masterVolume, soundToggles, soundVolumes, isPlaying,
  \* which AudioEngine component the page renders
  engine,
  \* the audio output of the browser, the exception that escaped a handler, and
  \* the "not supported" reports of the context provider
  device, uncaught, unsupportedReports,
  \* the clock of the browser (seconds since the epoch) and the manual time
  \* mode of the page
  wallClock, useManualTime, manualTimeBase, manualTimeOffset, inputValues,
  \* persistent-oscillator AudioEngine
  isInitializedRef, lastHourRef, quarterSecond, quarterSecondIntervalRef,
  localMasterGainRef, oscillatorSetups,
  \* note-per-tick AudioEngine
  audioContextRef, masterGainRef, referenceSourceRef, referenceGainRef,
  hourSourceRef, hourGainRef, lastPlayedHourRef, secondSchedulerRef,
  activeSourcesRef, cleanupTimerRef, contextCheckInterval, cleanupTimeouts, liveSchedulers,
  \* what the last step of a mounted engine was and did
  calls, created, disposed, notes, stops, timers, lastOp,
  \* the pitch lookup last applied to a bare value
  lookup,
  \* MusicalStaff: whether the page renders it, its alignment timeout and the
  \* 2 s re-render intervals that are alive
  showMusicStaff, staffTimeout, staffIntervals

manualVars == <<wallClock, useManualTime, manualTimeBase, manualTimeOffset, inputValues>>
hostVars == <<hours, minutes, seconds, milliseconds, masterVolume, soundToggles, soundVolumes,
              isPlaying, engine, unsupportedReports, manualVars>>
deviceVars == <<device, uncaught>>
engineVars == <<isInitializedRef, lastHourRef, quarterSecond, quarterSecondIntervalRef,
                localMasterGainRef, oscillatorSetups>>
transientVars == <<audioContextRef, masterGainRef, referenceSourceRef, referenceGainRef,
                   hourSourceRef, hourGainRef, lastPlayedHourRef, secondSchedulerRef,
                   activeSourcesRef, cleanupTimerRef, contextCheckInterval, cleanupTimeouts,
                   liveSchedulers>>
logVars == <<calls, created, disposed, notes, stops, timers>>
staffVars == <<showMusicStaff, staffTimeout, staffIntervals>>
vars == <<hostVars, deviceVars, engineVars, transientVars, logVars, lastOp, lookup, staffVars>>

NULL == 0 - 1

\* an AudioParam: the automation events scheduled by the calls that last
\* wrote it, in time order (a created node holds its initial value)
NewParam(v) == <<[v |-> v, d |-> 0]>>
\* param.value read by a later call: the automation has progressed to one of
\* its events
ValueAt(p, r) == p[r].v
\* the final value the param converges to
FinalValue(p) == p[Len(p)].v
\* the highest value the param is scheduled to reach
RECURSIVE MaxOf(_)
MaxOf(s) == IF s = <<>> THEN 0 ELSE LET m == MaxOf(Tail(s)) IN IF Head(s).v > m THEN Head(s).v ELSE m
PeakValue(p) == MaxOf(p)

\* one automation call: from is the value the parameter has where the call
\* takes effect
Call(param, op, v, d, from) == [param |-> param, op |-> op, v |-> v, d |-> d, from |-> from]
Targets == Channels \cup {"master"}
NoCalls == [ch \in Targets |-> <<>>]

NullSetup == [oscillator |-> "null", gain |-> "null", frequency |-> 0, gainParam |-> NewParam(0)]
NullMaster == [node |-> "null", gainParam |-> NewParam(0)]

Props == [hours |-> hours, minutes |-> minutes, seconds |-> seconds, milliseconds |-> milliseconds,
          masterVolume |-> masterVolume, soundToggles |-> soundToggles, soundVolumes |-> soundVolumes,
          audioContext |-> IF device = "missing" THEN "null" ELSE "live"]

\* the refs of one mounted component instance, threaded through its effects
FreshInstance ==
  [init |-> FALSE, lastHour |-> NULL, interval |-> FALSE, lmg |-> NullMaster,
   setups |-> [ch \in Channels |-> NullSetup],
   device |-> device, uncaught |-> "none",
   calls |-> NoCalls, created |-> {}, disposed |-> {}, timers |-> {}]
ThisInstance ==
  [init |-> isInitializedRef, lastHour |-> lastHourRef, interval |-> quarterSecondIntervalRef,
   lmg |-> localMasterGainRef, setups |-> oscillatorSetups,
   device |-> device, uncaught |-> uncaught,
   calls |-> NoCalls, created |-> {}, disposed |-> {}, timers |-> {}]

\* ensureAudioContextRunning of the context provider (X is an instance): a
\* suspended context is asked to resume, which completes later
ensureAudioContextRunningNoResume(X) == X
ensureAudioContextRunning(X) ==
  IF X.device = "suspended" THEN [X EXCEPT !.device = "resuming"] ELSE X

\* setInterval and clearInterval of one of the engine's timers, as the step
\* that called them records it
Started(timer) == [timer |-> timer, what |-> "started"]
Cleared(timer) == [timer |-> timer, what |-> "cleared"]

\* ------------------------------------------- persistent-oscillator engine
createOscillatorSetup(E, ch, frequency) ==
  [E EXCEPT !.setups[ch] = [oscillator |-> "live", gain |-> "live", frequency |-> frequency,
                            gainParam |-> NewParam(0)],
            !.created = @ \cup {ch}]

disposeOscillatorSetup(E, ch) ==
  IF E.setups[ch].oscillator # "null"
  THEN [E EXCEPT !.setups[ch].oscillator = "stopped",
                 !.setups[ch].gain = IF @ = "null" THEN "null" ELSE "disconnected",
                 !.disposed = @ \cup {ch}]
  ELSE [E EXCEPT !.setups[ch].gain = IF @ = "null" THEN "null" ELSE "disconnected"]

updateOscillatorFrequency(E, ch, frequency, duration) ==
  IF E.setups[ch].oscillator = "null" THEN E
  ELSE LET cur == E.setups[ch].frequency IN
       [E EXCEPT !.setups[ch].frequency = frequency,
                 !.calls[ch] = @ \o <<Call("frequency", "cancel", 0, 0, cur),
                                      Call("frequency", "set", cur, 0, cur),
                                      Call("frequency", "ramp", frequency, duration, cur)>>]

updateGainWithEnvelope(E, ch, targetVolume, attack, r) ==
  IF E.setups[ch].gain = "null" THEN E
  ELSE LET cur == ValueAt(E.setups[ch].gainParam, r[ch]) IN
       [E EXCEPT !.setups[ch].gainParam = <<[v |-> targetVolume, d |-> attack]>>,
                 !.calls[ch] = @ \o <<Call("gain", "cancel", 0, 0, cur),
                                      Call("gain", "set", cur, 0, cur),
                                      Call("gain", "ramp", targetVolume, attack, cur)>>]

\* the inline note envelope of the minute effect
minuteEnvelope(E, ch, volume, r) ==
  LET cur == ValueAt(E.setups[ch].gainParam, r[ch]) IN
  [E EXCEPT !.setups[ch].gainParam =
              <<[v |-> volume, d |-> 50], [v |-> (volume * 8) \div 10, d |-> 150], [v |-> 0, d |-> 800]>>,
            !.calls[ch] = @ \o <<Call("gain", "cancel", 0, 0, cur),
                                 Call("gain", "set", 0, 0, cur),
                                 Call("gain", "ramp", volume, 50, 0),
                                 Call("gain", "ramp", (volume * 8) \div 10, 150, volume),
                                 Call("gain", "ramp", 0, 800, (volume * 8) \div 10)>>]

\* the inline note envelope of the second effect
secondEnvelope(E, ch, volume, r) ==
  LET cur == ValueAt(E.setups[ch].gainParam, r[ch]) IN
  [E EXCEPT !.setups[ch].gainParam =
              <<[v |-> volume, d |-> 10], [v |-> 0, d |-> 150]>>,
            !.calls[ch] = @ \o <<Call("gain", "cancel", 0, 0, cur),
                                 Call("gain", "set", 0, 0, cur),
                                 Call("gain", "ramp", volume, 10, 0),
                                 Call("gain", "ramp", 0, 150, volume)>>]

initEffect(E, p) ==
  IF p.audioContext = "null" \/ E.init THEN E
  ELSE LET E0 == [ensureAudioContextRunning(E)
                  EXCEPT !.lmg = [node |-> "live", gainParam |-> NewParam(p.masterVolume)]]
           E1 == createOscillatorSetup(E0, "reference", getNoteFrequency("C3"))
           E2 == createOscillatorSetup(E1, "hour", getNoteFrequency("C3"))
           E3 == createOscillatorSetup(E2, "minuteTens", getNoteFrequency("C4"))
           E4 == createOscillatorSetup(E3, "minuteOnes", getNoteFrequency("C4"))
           E5 == createOscillatorSetup(E4, "secondTens", getNoteFrequency("C5"))
           E6 == createOscillatorSetup(E5, "secondOnes", getNoteFrequency("C5"))
       IN [E6 EXCEPT !.init = TRUE, !.interval = TRUE, !.timers = @ \cup {Started("quarterSecond")}]

initCleanup(E) ==
  LET E0 == [E EXCEPT !.interval = FALSE,
                      !.timers = IF E.interval THEN @ \cup {Cleared("quarterSecond")} ELSE @]
      E1 == disposeOscillatorSetup(E0, "reference")
      E2 == disposeOscillatorSetup(E1, "hour")
      E3 == disposeOscillatorSetup(E2, "minuteTens")
      E4 == disposeOscillatorSetup(E3, "minuteOnes")
      E5 == disposeOscillatorSetup(E4, "secondTens")
      E6 == disposeOscillatorSetup(E5, "secondOnes")
  IN [E6 EXCEPT !.lmg.node = IF @ = "null" THEN "null" ELSE "disconnected", !.init = FALSE]

masterVolumeEffect(E, p, r) ==
  IF E.lmg.node = "null" \/ p.audioContext = "null" THEN E
  ELSE LET cur == ValueAt(E.lmg.gainParam, r["master"])
           rest == SubSeq(E.lmg.gainParam, r["master"] + 1, Len(E.lmg.gainParam))
       IN [E EXCEPT !.lmg.gainParam = rest \o <<[v |-> p.masterVolume, d |-> 100]>>,
                    !.calls["master"] = @ \o <<Call("gain", "set", cur, 0, cur),
                                               Call("gain", "ramp", p.masterVolume, 100, cur)>>]

referenceEffect(E, p, r) ==
  IF p.audioContext = "null" \/ E.setups["reference"].gain = "null" \/ ~E.init THEN E
  ELSE LET targetVolume == IF p.soundToggles["reference"]
                           THEN 10 * p.soundVolumes["reference"] * p.masterVolume ELSE 0
       IN updateGainWithEnvelope(ensureAudioContextRunning(E), "reference", targetVolume, 200, r)

hourEffect(E, p, r) ==
  IF \/ p.audioContext = "null"
     \/ E.setups["hour"].oscillator = "null" \/ E.setups["hour"].gain = "null" \/ ~E.init
  THEN E
  ELSE LET hourNote == getTimeNote("hour", p.hours)
           frequency == getNoteFrequency(hourNote)
           E0 == ensureAudioContextRunning(E)
           E1 == IF E0.lastHour # p.hours
                 THEN [updateOscillatorFrequency(E0, "hour", frequency, 200) EXCEPT !.lastHour = p.hours]
                 ELSE E0
           targetVolume == IF p.soundToggles["hour"]
                           THEN 10 * p.soundVolumes["hour"] * p.masterVolume ELSE 0
       IN updateGainWithEnvelope(E1, "hour", targetVolume, 200, r)

\* minuteEffect playing the selected digit even when it is 0
minuteEffectNoRest(E, p, r) ==
  IF E.setups["minuteTens"].gain = "null" \/ E.setups["minuteOnes"].gain = "null" \/ ~E.init THEN E
  ELSE LET volume == 10 * p.soundVolumes["minute"] * p.masterVolume
       IN IF ~p.soundToggles["minute"]
          THEN updateGainWithEnvelope(updateGainWithEnvelope(E, "minuteTens", 0, 50, r),
                                      "minuteOnes", 0, 50, r)
          ELSE IF p.seconds % 2 = 0
          THEN updateGainWithEnvelope(minuteEnvelope(E, "minuteTens", volume, r), "minuteOnes", 0, 50, r)
          ELSE updateGainWithEnvelope(minuteEnvelope(E, "minuteOnes", volume, r), "minuteTens", 0, 50, r)

minuteEffect(E, p, r) ==
  IF \/ p.audioContext = "null"
     \/ E.setups["minuteTens"].gain = "null" \/ E.setups["minuteOnes"].gain = "null" \/ ~E.init
     \/ E.setups["minuteTens"].oscillator = "null" \/ E.setups["minuteOnes"].oscillator = "null"
  THEN E
  ELSE LET minuteTens == p.minutes \div 10
           minuteOnes == p.minutes % 10
           E1 == updateOscillatorFrequency(ensureAudioContextRunning(E), "minuteTens",
                     getNoteFrequency(getTimeNote("minuteTens", minuteTens)), 50)
           E2 == updateOscillatorFrequency(E1, "minuteOnes",
                     getNoteFrequency(getTimeNote("minuteOnes", minuteOnes)), 50)
           playTens == p.seconds % 2 = 0
           volume == 10 * p.soundVolumes["minute"] * p.masterVolume
       IN IF p.soundToggles["minute"]
          THEN IF playTens /\ minuteTens > 0
               THEN updateGainWithEnvelope(minuteEnvelope(E2, "minuteTens", volume, r), "minuteOnes", 0, 50, r)
               ELSE IF ~playTens /\ minuteOnes > 0
               THEN updateGainWithEnvelope(minuteEnvelope(E2, "minuteOnes", volume, r), "minuteTens", 0, 50, r)
               ELSE updateGainWithEnvelope(updateGainWithEnvelope(E2, "minuteTens", 0, 50, r),
                                           "minuteOnes", 0, 50, r)
          ELSE updateGainWithEnvelope(updateGainWithEnvelope(E2, "minuteTens", 0, 50, r),
                                      "minuteOnes", 0, 50, r)

\* secondEffect with the "ensure the other digit is silent" calls left out
secondEffectNoSilence(E, p, q, r) ==
  IF \/ E.setups["secondTens"].gain = "null" \/ E.setups["secondOnes"].gain = "null" \/ ~E.init
     \/ ~p.soundToggles["second"]
  THEN E
  ELSE LET playTens == q = 0 \/ q = 2
           volume == 10 * p.soundVolumes["second"] * p.masterVolume
       IN IF playTens /\ p.seconds \div 10 > 0 THEN secondEnvelope(E, "secondTens", volume, r)
          ELSE IF ~playTens /\ p.seconds % 10 > 0 THEN secondEnvelope(E, "secondOnes", volume, r)
          ELSE E

secondEffect(E, p, q, r) ==
  IF \/ p.audioContext = "null"
     \/ E.setups["secondTens"].gain = "null" \/ E.setups["secondOnes"].gain = "null" \/ ~E.init
     \/ E.setups["secondTens"].oscillator = "null" \/ E.setups["secondOnes"].oscillator = "null"
     \/ ~p.soundToggles["second"]
  THEN E
  ELSE LET secondTens == p.seconds \div 10
           secondOnes == p.seconds % 10
           E1 == updateOscillatorFrequency(ensureAudioContextRunning(E), "secondTens",
                     getNoteFrequency(getTimeNote("secondTens", secondTens)), 20)
           E2 == updateOscillatorFrequency(E1, "secondOnes",
                     getNoteFrequency(getTimeNote("secondOnes", secondOnes)), 20)
           playTens == q = 0 \/ q = 2
           volume == 10 * p.soundVolumes["second"] * p.masterVolume
       IN IF playTens /\ secondTens > 0
          THEN updateGainWithEnvelope(secondEnvelope(E2, "secondTens", volume, r), "secondOnes", 0, 20, r)
          ELSE IF ~playTens /\ secondOnes > 0
          THEN updateGainWithEnvelope(secondEnvelope(E2, "secondOnes", volume, r), "secondTens", 0, 20, r)
          ELSE updateGainWithEnvelope(updateGainWithEnvelope(E2, "secondTens", 0, 20, r),
                                      "secondOnes", 0, 20, r)

secondsToggleEffect(E, p, r) ==
  IF \/ p.audioContext = "null"
     \/ E.setups["secondTens"].gain = "null" \/ E.setups["secondOnes"].gain = "null"
  THEN E
  ELSE IF ~p.soundToggles["second"]
       THEN updateGainWithEnvelope(updateGainWithEnvelope(E, "secondTens", 0, 50, r),
                                   "secondOnes", 0, 50, r)
       ELSE E

\* one commit of the component: the effects named in run, in declaration order
Effects == {"init", "master", "reference", "hour", "minute", "second", "secondsToggle"}
RunEffects(E, p, q, r, run) ==
  LET A == IF "init" \in run THEN initEffect(E, p) ELSE E
      B == IF "master" \in run THEN masterVolumeEffect(A, p, r) ELSE A
      C == IF "reference" \in run THEN referenceEffect(B, p, r) ELSE B
      D == IF "hour" \in run THEN hourEffect(C, p, r) ELSE C
      F == IF "minute" \in run THEN minuteEffect(D, p, r) ELSE D
      G == IF "second" \in run THEN secondEffect(F, p, q, r) ELSE F
  IN IF "secondsToggle" \in run THEN secondsToggleEffect(G, p, r) ELSE G


\* ------------------------------------------------ note-per-tick engine
\* The component of components/audio-engine.tsx ("transient") and its earlier
\* form ("first"), which differ in how a drone is stopped and updated.
hourNotesV1 == <<"C4", "C4", "D4", "E4", "F4", "G4", "A4", "B4", "C5", "D5", "E5", "F5", "G5">>
getHourNoteV1(hour) == ArrayAt(hourNotesV1, IF hour = 0 THEN 12 ELSE hour)

\* the generators of one ambient pad, each pushed to activeSourcesRef with no
\* end time
PadGenerators == 7
\* the channels that play an ambient pad
DroneChannels == {"reference", "hour"}
\* the tracked list is followed up to one pad more than the drone channels
MaxTracked == Cardinality(DroneChannels) + 1

\* the refs of one mounted component instance; a gain ref holds the value the
\* node's gain was last scheduled to reach, the scheduler ref the volume
\* captured by the live interval callback, activeSources the number of tracked
\* entries that carry no end time, timeouts the deferred drone cleanups that
\* have not fired yet
FreshTransient ==
  [ctx |-> "null", masterGain |-> NULL,
   referenceSource |-> "null", referenceGain |-> NULL,
   hourSource |-> "null", hourGain |-> NULL, lastPlayedHour |-> NULL,
   secondScheduler |-> NULL,
   activeSources |-> 0, cleanupTimer |-> FALSE, contextCheck |-> FALSE, timeouts |-> <<>>,
   live |-> 0,
   device |-> device, uncaught |-> "none",
   calls |-> NoCalls, created |-> {}, disposed |-> {}, notes |-> <<>>, stops |-> {}, timers |-> {}]
ThisTransient ==
  [ctx |-> audioContextRef, masterGain |-> masterGainRef,
   referenceSource |-> referenceSourceRef, referenceGain |-> referenceGainRef,
   hourSource |-> hourSourceRef, hourGain |-> hourGainRef, lastPlayedHour |-> lastPlayedHourRef,
   secondScheduler |-> secondSchedulerRef,
   activeSources |-> activeSourcesRef, cleanupTimer |-> cleanupTimerRef,
   contextCheck |-> contextCheckInterval, timeouts |-> cleanupTimeouts,
   live |-> liveSchedulers,
   device |-> device, uncaught |-> uncaught,
   calls |-> NoCalls, created |-> {}, disposed |-> {}, notes |-> <<>>, stops |-> {}, timers |-> {}]

\* ensureContextRunning and the inline resume of the update effect and of
\* playNote: a suspended context is asked to resume
ensureContextRunning(T) ==
  IF T.device = "suspended" THEN [T EXCEPT !.device = "resuming"] ELSE T

\* playNote / createSynthesizedNote: a new set of generators for one note; the
\* ambient pad fades its pad gain in to 1.5 x volume over 1.5 s
playNote(T, instrument, ch, note, volume, destination) ==
  IF T.ctx = "null" THEN T
  ELSE [ensureContextRunning(T) EXCEPT !.notes = Append(@, [instrument |-> instrument, ch |-> ch, note |-> note,
                                      frequency |-> getNoteFrequency(note), volume |-> volume,
                                      destination |-> destination]),
                 !.created = @ \cup {ch},
                 !.activeSources = IF instrument = "ambient" THEN @ + PadGenerators ELSE @,
                 !.calls[ch] = IF instrument = "ambient"
                               THEN @ \o <<Call("gain", "set", 0, 0, 0),
                                           Call("gain", "ramp", (volume * 15) \div 10, 1500, 0)>>
                               ELSE @]

safelyStopAndDisconnectSource(T, ch, gainNode) ==
  [T EXCEPT !.calls[ch] = IF gainNode # NULL THEN @ \o <<Call("gain", "ramp", 0, 50, gainNode)>> ELSE @,
            !.stops = @ \cup {[ch |-> ch, fade |-> IF gainNode # NULL THEN 50 ELSE 0, delay |-> 60]},
            !.disposed = @ \cup {ch}]

\* source.stop() of the first form: the generator stops at once
stopSource(T, ch) ==
  [T EXCEPT !.stops = @ \cup {[ch |-> ch, fade |-> 0, delay |-> 0]},
            !.disposed = @ \cup {ch}]

\* the 1 s cleanup interval: an entry is dropped once its end time has passed;
\* an entry with no end time is kept
cleanupFinishedNodes(T) == T

\* teardown: every tracked entry is stopped and the list emptied
cleanupAllNodes(T) ==
  [T EXCEPT !.activeSources = 0]

\* new (window.AudioContext || window.webkitAudioContext)() with neither
\* constructor defined throws a TypeError out of the effect
initEffectTransient(T, p) ==
  IF T.device = "missing" THEN [T EXCEPT !.uncaught = "TypeError"]
  ELSE [ensureContextRunning(T) EXCEPT !.ctx = "running", !.masterGain = p.masterVolume,
                                       !.contextCheck = TRUE, !.cleanupTimer = TRUE,
                                       !.timers = @ \cup {Started("contextCheck"), Started("cleanup")}]

\* the first form starts no interval in its init effect
initEffectV1(T, p) ==
  IF T.device = "missing" THEN [T EXCEPT !.uncaught = "TypeError"]
  ELSE [ensureContextRunning(T) EXCEPT !.ctx = "running", !.masterGain = p.masterVolume]

initCleanupTransient(T, variant) ==
  LET A == [T EXCEPT !.contextCheck = FALSE, !.secondScheduler = NULL, !.cleanupTimer = FALSE,
                     !.live = IF T.secondScheduler # NULL THEN @ - 1 ELSE @,
                     !.timers = @ \cup (IF T.contextCheck THEN {Cleared("contextCheck")} ELSE {})
                                  \cup (IF T.secondScheduler # NULL THEN {Cleared("secondScheduler")} ELSE {})
                                  \cup (IF T.cleanupTimer THEN {Cleared("cleanup")} ELSE {})]
      B == IF A.referenceSource = "null" THEN A
           ELSE [(IF variant = "first" THEN stopSource(A, "reference")
                  ELSE safelyStopAndDisconnectSource(A, "reference", A.referenceGain))
                 EXCEPT !.referenceSource = "null", !.referenceGain = NULL]
      C == IF B.hourSource = "null" THEN B
           ELSE [(IF variant = "first" THEN stopSource(B, "hour")
                  ELSE safelyStopAndDisconnectSource(B, "hour", B.hourGain))
                 EXCEPT !.hourSource = "null", !.hourGain = NULL]
  IN [cleanupAllNodes(C) EXCEPT !.ctx = "closed"]

\* update effect, reference tone
referenceTone(T, p) ==
  LET volume == 12 * p.soundVolumes["reference"] * p.masterVolume IN
  IF p.soundToggles["reference"]
  THEN IF T.referenceSource = "null"
       THEN [playNote(T, "ambient", "reference", "C3", volume, "reverb")
             EXCEPT !.referenceSource = "live", !.referenceGain = (volume * 15) \div 10]
       ELSE IF T.referenceGain # NULL
       THEN [T EXCEPT !.referenceGain = volume,
                      !.calls["reference"] = @ \o <<Call("gain", "ramp", volume, 100, T.referenceGain)>>]
       ELSE T
  ELSE IF T.referenceSource # "null"
       THEN [safelyStopAndDisconnectSource(T, "reference", T.referenceGain)
             EXCEPT !.referenceSource = "null", !.referenceGain = NULL]
       ELSE T

referenceToneV1(T, p) ==
  LET volume == 12 * p.soundVolumes["reference"] * p.masterVolume IN
  IF p.soundToggles["reference"]
  THEN IF T.referenceSource = "null"
       THEN [playNote(T, "ambient", "reference", "C4", volume, "reverb") EXCEPT !.referenceSource = "live"]
       ELSE T
  ELSE IF T.referenceSource # "null"
       THEN [stopSource(T, "reference") EXCEPT !.referenceSource = "null"]
       ELSE T

\* update effect, hour tone
hourTone(T, p) ==
  LET volume == 12 * p.soundVolumes["hour"] * p.masterVolume
      hourNote == getHourNote(p.hours)
  IN
  IF p.soundToggles["hour"]
  THEN IF T.lastPlayedHour # p.hours \/ T.hourSource = "null"
       THEN LET A == IF T.hourSource # "null"
                     THEN safelyStopAndDisconnectSource(T, "hour", T.hourGain) ELSE T
            IN [playNote(A, "ambient", "hour", hourNote, volume, "reverb")
                EXCEPT !.hourSource = "live", !.hourGain = (volume * 15) \div 10,
                       !.lastPlayedHour = p.hours]
       ELSE IF T.hourGain # NULL
       THEN [T EXCEPT !.hourGain = volume,
                      !.calls["hour"] = @ \o <<Call("gain", "ramp", volume, 100, T.hourGain)>>]
       ELSE T
  ELSE IF T.hourSource # "null"
       THEN [safelyStopAndDisconnectSource(T, "hour", T.hourGain)
             EXCEPT !.hourSource = "null", !.hourGain = NULL, !.lastPlayedHour = NULL]
       ELSE T

hourToneV1(T, p) ==
  LET volume == 12 * p.soundVolumes["hour"] * p.masterVolume
      hourNote == getHourNoteV1(p.hours)
  IN
  IF p.soundToggles["hour"]
  THEN IF T.lastPlayedHour # p.hours \/ T.hourSource = "null"
       THEN LET A == IF T.hourSource # "null" THEN stopSource(T, "hour") ELSE T
            IN [playNote(A, "ambient", "hour", hourNote, volume, "reverb")
                EXCEPT !.hourSource = "live", !.lastPlayedHour = p.hours]
       ELSE T
  ELSE IF T.hourSource # "null"
       THEN [stopSource(T, "hour") EXCEPT !.hourSource = "null", !.lastPlayedHour = NULL]
       ELSE T

\* minuteTones playing the tens digit on every second
minuteTonesTensOnly(T, p) ==
  IF p.soundToggles["minute"] /\ p.minutes \div 10 > 0
  THEN playNote(T, "harp", "minuteTens", getMinuteTensNote(p.minutes \div 10),
                10 * p.soundVolumes["minute"] * p.masterVolume, "masterGain")
  ELSE T

\* update effect, minute tones (harp)
minuteTones(T, p) ==
  LET minuteTens == p.minutes \div 10
      minuteOnes == p.minutes % 10
      playTens == p.seconds % 2 = 0
      volume == 10 * p.soundVolumes["minute"] * p.masterVolume
  IN IF ~p.soundToggles["minute"] THEN T
     ELSE IF playTens /\ minuteTens > 0
     THEN playNote(T, "harp", "minuteTens", getMinuteTensNote(minuteTens), volume, "masterGain")
     ELSE IF ~playTens /\ minuteOnes > 0
     THEN playNote(T, "harp", "minuteOnes", getMinuteOnesNote(minuteOnes), volume, "masterGain")
     ELSE T

\* secondTone playing tens in the first half of the second, ones in the second
secondToneHalves(T, currentSecond, ms, volume) ==
  IF Quarter(ms) < 2 /\ currentSecond \div 10 > 0
  THEN playNote(T, "vibraphone", "secondTens", getSecondTensNote(currentSecond \div 10), volume, "masterGain")
  ELSE IF Quarter(ms) >= 2 /\ currentSecond % 10 > 0
  THEN playNote(T, "vibraphone", "secondOnes", getSecondOnesNote(currentSecond % 10), volume, "masterGain")
  ELSE T

\* the tone both scheduleSecondTones and its interval callback play for a
\* clock reading
secondTone(T, currentSecond, ms, volume) ==
  LET secondTens == currentSecond \div 10
      secondOnes == currentSecond % 10
      quarter == Quarter(ms)
      isTens == quarter = 0 \/ quarter = 2
  IN IF isTens /\ secondTens > 0
     THEN playNote(T, "vibraphone", "secondTens", getSecondTensNote(secondTens), volume, "masterGain")
     ELSE IF ~isTens /\ secondOnes > 0
     THEN playNote(T, "vibraphone", "secondOnes", getSecondOnesNote(secondOnes), volume, "masterGain")
     ELSE T

scheduleSecondTones(T, currentSecond, ms, enabled, volume) ==
  IF ~enabled THEN T
  ELSE [secondTone(T, currentSecond, ms, volume)
        EXCEPT !.secondScheduler = volume, !.live = @ + 1,
               !.timers = @ \cup {Started("secondScheduler")}]

\* the 250 ms interval callback; now is the reading of new Date()
secondSchedulerCallback(T, now) ==
  IF T.ctx \in {"null", "closed"}
  THEN [T EXCEPT !.secondScheduler = NULL, !.live = @ - 1,
                 !.timers = @ \cup {Cleared("secondScheduler")}]
  ELSE secondTone(T, now.seconds, now.milliseconds, T.secondScheduler)

\* an update effect that schedules without clearing the scheduler it finds
updateEffectNoClear(T, p, variant) ==
  IF T.ctx = "null" \/ T.masterGain = NULL THEN T
  ELSE LET A == ensureContextRunning(T)
           B == IF variant = "first" THEN referenceToneV1(A, p) ELSE referenceTone(A, p)
           C == IF variant = "first" THEN hourToneV1(B, p) ELSE hourTone(B, p)
           D == minuteTones(C, p)
       IN IF p.soundToggles["second"]
          THEN scheduleSecondTones(D, p.seconds, p.milliseconds, p.soundToggles["second"],
                                   10 * p.soundVolumes["second"] * p.masterVolume)
          ELSE D

updateEffect(T, p, variant) ==
  IF T.ctx = "null" \/ T.masterGain = NULL THEN T
  ELSE LET A == [ensureContextRunning(T)
                 EXCEPT !.secondScheduler = NULL,
                        !.live = IF T.secondScheduler # NULL THEN @ - 1 ELSE @,
                        !.timers = IF T.secondScheduler # NULL THEN @ \cup {Cleared("secondScheduler")} ELSE @]
           B == IF variant = "first" THEN referenceToneV1(A, p) ELSE referenceTone(A, p)
           C == IF variant = "first" THEN hourToneV1(B, p) ELSE hourTone(B, p)
           D == minuteTones(C, p)
       IN IF p.soundToggles["second"]
          THEN scheduleSecondTones(D, p.seconds, p.milliseconds, p.soundToggles["second"],
                                   10 * p.soundVolumes["second"] * p.masterVolume)
          ELSE D

\* ------------------------------------------- shared-context variant
\* The note-per-tick component that plays on the provider's context
\* ("shared"): each drone has an effect of its own, and a drone is released
\* by a deferred cleanup that reads the refs when it fires.
ToggleOffDelay == 1100
PreviousHourDelay == 600
\* the deferred cleanups followed while they are pending
MaxPending == 2
\* the quarter-second scheduler intervals followed while alive
MaxSchedulers == 2
\* the re-render intervals of the staff followed while alive
MaxIntervals == 2
Timeout(ch, delay, resetHour) == [ch |-> ch, delay |-> delay, resetHour |-> resetHour]

\* a gain change of an existing drone: cancel, hold the current value, ramp
droneRamp(T, ch, from, target, duration) ==
  [T EXCEPT !.calls[ch] = @ \o <<Call("gain", "cancel", 0, 0, from),
                                 Call("gain", "set", from, 0, from),
                                 Call("gain", "ramp", target, duration, from)>>]

\* a new drone oscillator with a 2 s attack
droneCreate(T, ch, target) ==
  [T EXCEPT !.created = @ \cup {ch},
            !.calls[ch] = @ \o <<Call("gain", "set", 0, 0, 0),
                                 Call("gain", "ramp", target, 2000, 0)>>]

safelyStopAndDisconnectSourceShared(T, ch, gainNode) ==
  LET A == IF gainNode # NULL THEN droneRamp(T, ch, gainNode, 0, 500) ELSE T
  IN [A EXCEPT !.stops = @ \cup {[ch |-> ch, fade |-> IF gainNode # NULL THEN 500 ELSE 0, delay |-> 600]},
               !.disposed = @ \cup {ch}]

initEffectShared(T, p) ==
  IF p.audioContext = "null" \/ T.ctx = "running" THEN T
  ELSE [ensureAudioContextRunning(T) EXCEPT !.ctx = "running", !.masterGain = p.masterVolume,
                                            !.cleanupTimer = TRUE,
                                            !.timers = @ \cup {Started("cleanup")}]

initCleanupShared(T) ==
  LET A == [T EXCEPT !.secondScheduler = NULL, !.cleanupTimer = FALSE,
                     !.live = IF T.secondScheduler # NULL THEN @ - 1 ELSE @,
                     !.timers = @ \cup (IF T.secondScheduler # NULL THEN {Cleared("secondScheduler")} ELSE {})
                                  \cup (IF T.cleanupTimer THEN {Cleared("cleanup")} ELSE {})]
      B == IF A.referenceSource = "null" THEN A
           ELSE [safelyStopAndDisconnectSourceShared(A, "reference", A.referenceGain)
                 EXCEPT !.referenceSource = "null", !.referenceGain = NULL]
      C == IF B.hourSource = "null" THEN B
           ELSE [safelyStopAndDisconnectSourceShared(B, "hour", B.hourGain)
                 EXCEPT !.hourSource = "null", !.hourGain = NULL]
  IN [cleanupAllNodes(C) EXCEPT !.masterGain = NULL, !.ctx = "null"]

masterVolumeEffectShared(T, p) ==
  IF T.masterGain = NULL THEN T ELSE [T EXCEPT !.masterGain = p.masterVolume]

referenceEffectShared(T, p) ==
  LET targetVolume == 12 * p.soundVolumes["reference"] * p.masterVolume IN
  IF p.audioContext = "null" \/ T.ctx # "running" THEN T
  ELSE IF p.soundToggles["reference"]
  THEN IF T.referenceSource = "null"
       THEN [droneCreate(T, "reference", targetVolume)
             EXCEPT !.referenceSource = "live", !.referenceGain = targetVolume]
       ELSE IF T.referenceGain # NULL
       THEN [droneRamp(T, "reference", T.referenceGain, targetVolume, 1000)
             EXCEPT !.referenceGain = targetVolume]
       ELSE T
  ELSE IF T.referenceSource # "null" /\ T.referenceGain # NULL
       THEN [droneRamp(T, "reference", T.referenceGain, 0, 1000)
             EXCEPT !.referenceGain = 0,
                    !.timeouts = Append(@, Timeout("reference", ToggleOffDelay, FALSE))]
       ELSE T

hourEffectShared(T, p) ==
  LET targetVolume == 12 * p.soundVolumes["hour"] * p.masterVolume IN
  IF p.audioContext = "null" \/ T.ctx # "running" THEN T
  ELSE IF p.soundToggles["hour"]
  THEN IF T.lastPlayedHour # p.hours \/ T.hourSource = "null"
       THEN LET A == IF T.hourSource # "null" /\ T.hourGain # NULL
                     THEN [droneRamp(T, "hour", T.hourGain, 0, 500)
                           EXCEPT !.timeouts = Append(@, Timeout("hour", PreviousHourDelay, FALSE))]
                     ELSE T
            IN [droneCreate(A, "hour", targetVolume)
                EXCEPT !.hourSource = "live", !.hourGain = targetVolume, !.lastPlayedHour = p.hours]
       ELSE IF T.hourGain # NULL
       THEN [droneRamp(T, "hour", T.hourGain, targetVolume, 1000) EXCEPT !.hourGain = targetVolume]
       ELSE T
  ELSE IF T.hourSource # "null" /\ T.hourGain # NULL
       THEN [droneRamp(T, "hour", T.hourGain, 0, 1000)
             EXCEPT !.hourGain = 0,
                    !.timeouts = Append(@, Timeout("hour", ToggleOffDelay, TRUE))]
       ELSE T

\* the minute and second tones effect
notesEffectShared(T, p) ==
  IF p.audioContext = "null" \/ T.masterGain = NULL \/ T.ctx # "running" THEN T
  ELSE LET A == [ensureAudioContextRunning(T)
                 EXCEPT !.secondScheduler = NULL,
                        !.live = IF T.secondScheduler # NULL THEN @ - 1 ELSE @,
                        !.timers = IF T.secondScheduler # NULL THEN @ \cup {Cleared("secondScheduler")} ELSE @]
           B == minuteTones(A, p)
       IN IF p.soundToggles["second"]
          THEN scheduleSecondTones(B, p.seconds, p.milliseconds, p.soundToggles["second"],
                                   10 * p.soundVolumes["second"] * p.masterVolume)
          ELSE B

\* a deferred drone cleanup fires: whatever the refs hold now is stopped and
\* released
cleanupTimeout(T, i) ==
  LET t == T.timeouts[i]
      A == IF t.ch = "reference"
           THEN (IF T.referenceSource # "null"
                 THEN [stopSource(T, "reference") EXCEPT !.referenceSource = "null"] ELSE T)
           ELSE (IF T.hourSource # "null"
                 THEN [stopSource(T, "hour") EXCEPT !.hourSource = "null"] ELSE T)
      B == IF t.ch = "reference" THEN [A EXCEPT !.referenceGain = NULL] ELSE [A EXCEPT !.hourGain = NULL]
      C == IF t.resetHour THEN [B EXCEPT !.lastPlayedHour = NULL] ELSE B
  IN [C EXCEPT !.timeouts = SubSeq(@, 1, i - 1) \o SubSeq(@, i + 1, Len(@))]

EffectsShared == {"init", "master", "reference", "hour", "notes"}
RunShared(T, p, run) ==
  LET A == IF "init" \in run THEN initEffectShared(T, p) ELSE T
      B == IF "master" \in run THEN masterVolumeEffectShared(A, p) ELSE A
      C == IF "reference" \in run THEN referenceEffectShared(B, p) ELSE B
      D == IF "hour" \in run THEN hourEffectShared(C, p) ELSE C
  IN IF "notes" \in run THEN notesEffectShared(D, p) ELSE D
\* the effects whose dependency list names a layer's toggle or volume
LayerEffectsShared(layer) ==
  CASE layer = "reference" -> {"reference"}
    [] layer = "hour" -> {"hour"}
    [] OTHER -> {"notes"}

\* --------------------------------------------------------------- host page
Hours == (MaxHour - 1)..MaxHour
Minutes == {MaxMinute}
Seconds == (MaxSecond - 1)..MaxSecond
Millis == {250 * k : k \in (MaxQuarter - 1)..MaxQuarter}
\* the quarter starts a wall-clock reading can fall in
WallMillis == {0, 250, 500, 750}
Volumes == 0..VolSteps
MasterVolumes == 0..MasterSteps

NoReads == [t \in Targets |-> 1]
\* how far the automation of the channels an effect reads has progressed
Reads(c1, c2) ==
  {[t \in Targets |-> IF t = c1 THEN a ELSE IF t = c2 THEN b ELSE 1] :
     a \in 1..Len(oscillatorSetups[c1].gainParam), b \in 1..Len(oscillatorSetups[c2].gainParam)}
LayerReads(layer) ==
  CASE layer = "reference" -> Reads("reference", "reference")
    [] layer = "hour" -> Reads("hour", "hour")
    [] layer = "minute" -> Reads("minuteTens", "minuteOnes")
    [] OTHER -> Reads("secondTens", "secondOnes")
\* the effects whose dependency list names a layer's toggle / volume
ToggleEffects(layer) ==
  CASE layer = "reference" -> {"reference"}
    [] layer = "hour" -> {"hour"}
    [] layer = "minute" -> {"minute"}
    [] OTHER -> {"second", "secondsToggle"}
VolumeEffects(layer) ==
  CASE layer = "reference" -> {"reference"}
    [] layer = "hour" -> {"hour"}
    [] layer = "minute" -> {"minute"}
    [] OTHER -> {"second"}
\* the effects whose dependency list names masterVolume
MasterEffects == {"init", "master", "reference", "hour", "minute", "second"}

\* the new state of the mounted persistent component
CommitPersistent(E, q) ==
  /\ isInitializedRef' = E.init
  /\ lastHourRef' = E.lastHour
  /\ quarterSecondIntervalRef' = E.interval
  /\ localMasterGainRef' = E.lmg
  /\ oscillatorSetups' = E.setups
  /\ quarterSecond' = q
  /\ calls' = E.calls
  /\ created' = E.created
  /\ disposed' = E.disposed
  /\ notes' = <<>>
  /\ stops' = {}
  /\ timers' = E.timers
  /\ device' = E.device
  /\ uncaught' = E.uncaught
  /\ UNCHANGED transientVars

\* the new state of the mounted note-per-tick component
CommitTransient(T) ==
  /\ audioContextRef' = T.ctx
  /\ masterGainRef' = T.masterGain
  /\ referenceSourceRef' = T.referenceSource
  /\ referenceGainRef' = T.referenceGain
  /\ hourSourceRef' = T.hourSource
  /\ hourGainRef' = T.hourGain
  /\ lastPlayedHourRef' = T.lastPlayedHour
  /\ secondSchedulerRef' = T.secondScheduler
  /\ T.activeSources <= PadGenerators * MaxTracked
  /\ activeSourcesRef' = T.activeSources
  /\ cleanupTimerRef' = T.cleanupTimer
  /\ contextCheckInterval' = T.contextCheck
  /\ Len(T.timeouts) <= MaxPending
  /\ cleanupTimeouts' = T.timeouts
  /\ T.live <= MaxSchedulers /\ liveSchedulers' = T.live
  /\ calls' = T.calls
  /\ created' = T.created
  /\ disposed' = T.disposed
  /\ notes' = T.notes
  /\ stops' = T.stops
  /\ timers' = T.timers
  /\ device' = T.device
  /\ uncaught' = T.uncaught
  /\ UNCHANGED engineVars

Unmounted(E) ==
  [FreshInstance EXCEPT !.calls = E.calls, !.created = E.created, !.disposed = E.disposed,
                        !.timers = E.timers]
UnmountedTransient(T) ==
  [FreshTransient EXCEPT !.calls = T.calls, !.created = T.created, !.disposed = T.disposed,
                         !.notes = T.notes, !.stops = T.stops, !.timers = T.timers,
                         !.live = T.live]

\* a mount: every effect of the component runs, in declaration order
Mount(E, p) == RunEffects(E, p, 0, NoReads, Effects)
MountTransient(T, p, variant) ==
  IF variant = "shared" THEN RunShared(T, p, EffectsShared)
  ELSE updateEffect(IF variant = "first" THEN initEffectV1(T, p) ELSE initEffectTransient(T, p), p, variant)
\* the cleanup of the init effect
Teardown(T, variant) ==
  IF variant = "shared" THEN initCleanupShared(T) ELSE initCleanupTransient(T, variant)
\* a settings change of one layer: the effects that depend on it
Update(T, p, variant, layer) ==
  IF variant = "shared" THEN RunShared(T, p, LayerEffectsShared(layer)) ELSE updateEffect(T, p, variant)

\* the settings explored: the user changes the toggle and volume of one layer
\* at a time and puts them back before changing another layer
Changed(toggles, volumes) == {l \in Layers : ~toggles[l] \/ volumes[l] # VolSteps}
SettingsInBound(toggles, volumes) == Cardinality(Changed(toggles, volumes)) <= 1

\* the step last taken by a mounted engine: the handler, the layer whose
\* setting it changed, and the second and quarter its second-layer update read
Op(op, layer, second, phase) == [op |-> op, layer |-> layer, second |-> second, phase |-> phase]
NoLookup == [fn |-> "none", component |-> "none", value |-> 0, note |-> "none"]

\* the state after construction: nothing is mounted
Stopped ==
  /\ isPlaying = FALSE
  /\ isInitializedRef = FALSE /\ lastHourRef = NULL /\ quarterSecond = 0
  /\ quarterSecondIntervalRef = FALSE
  /\ localMasterGainRef = NullMaster
  /\ oscillatorSetups = [ch \in Channels |-> NullSetup]
  /\ audioContextRef = "null" /\ masterGainRef = NULL
  /\ referenceSourceRef = "null" /\ referenceGainRef = NULL
  /\ hourSourceRef = "null" /\ hourGainRef = NULL
  /\ lastPlayedHourRef = NULL /\ secondSchedulerRef = NULL
  /\ activeSourcesRef = 0 /\ cleanupTimerRef = FALSE /\ contextCheckInterval = FALSE
  /\ cleanupTimeouts = <<>> /\ liveSchedulers = 0
  /\ showMusicStaff = FALSE /\ staffTimeout = FALSE /\ staffIntervals = 0
  /\ calls = NoCalls /\ created = {} /\ disposed = {} /\ notes = <<>> /\ stops = {} /\ timers = {}
  /\ lastOp = Op("none", "none", NULL, NULL)
  /\ uncaught = "none"

\* the browser has an audio output and it is running
DeviceRunning == device = "running" /\ unsupportedReports = 0

\* Date, in whole seconds since the epoch and in the UTC time zone
SecondsPerDay == 24 * 60 * 60
TimeOfDay(date) == date % SecondsPerDay
getHours(date) == TimeOfDay(date) \div (60 * 60)
getMinutes(date) == (TimeOfDay(date) % (60 * 60)) \div 60
getSeconds(date) == TimeOfDay(date) % 60
setHours(date, h, m, s) == (date - TimeOfDay(date)) + h * 60 * 60 + m * 60 + s
displayHours(date) == IF getHours(date) % 12 = 0 THEN 12 ELSE getHours(date) % 12
\* the instant of a 12-hour reading on the second day of the epoch
DateAt(h, m, s) == setHours(SecondsPerDay, h % 12, m, s)

\* real-time mode with the clock itself not followed: Tick draws its readings
ClockDrawn ==
  /\ wallClock = NULL
  /\ useManualTime = FALSE /\ manualTimeBase = NULL /\ manualTimeOffset = 0
  /\ inputValues = NULL

\* real-time mode: the page shows the clock of the browser
RealTime ==
  /\ wallClock = DateAt(hours, minutes, seconds)
  /\ useManualTime = FALSE /\ manualTimeBase = NULL /\ manualTimeOffset = 0
  /\ inputValues = [hours |-> hours, minutes |-> minutes, seconds |-> seconds]

Init ==
  /\ engine = "persistent"
  /\ hours \in Hours /\ minutes \in Minutes /\ seconds \in Seconds /\ milliseconds = 0
  /\ masterVolume \in MasterVolumes
  /\ soundToggles = [l \in Layers |-> TRUE]
  /\ soundVolumes = [l \in Layers |-> VolSteps]
  /\ Stopped /\ DeviceRunning /\ ClockDrawn
  /\ lookup = NoLookup

\* the page responds: no exception has escaped a handler and unmounted it
Alive == uncaught = "none"

\* the re-render effect of MusicalStaff (deps isPlaying, seconds): its cleanup
\* clears the alignment timeout, its body sets a new one while playing
staffEffect(playing) == staffTimeout' = (showMusicStaff /\ playing)

\* togglePlay: the provider's context is asked to run, then the engine is
\* rendered only while isPlaying
Play ==
  /\ Alive /\ ~isPlaying
  /\ isPlaying' = TRUE
  /\ IF engine = "persistent"
     THEN CommitPersistent(Mount(ensureAudioContextRunning(FreshInstance), Props), 0)
     ELSE CommitTransient(MountTransient(ensureAudioContextRunning(FreshTransient), Props, engine))
  /\ lastOp' = Op("Play", "none", seconds, IF engine = "persistent" THEN 0 ELSE Quarter(milliseconds))
  /\ staffEffect(TRUE)
  /\ UNCHANGED <<hours, minutes, seconds, milliseconds, masterVolume, soundToggles, soundVolumes,
                 engine, unsupportedReports, manualVars, lookup, showMusicStaff, staffIntervals>>

Pause ==
  /\ Alive /\ isPlaying
  /\ isPlaying' = FALSE
  /\ IF engine = "persistent"
     THEN CommitPersistent(ensureAudioContextRunning(Unmounted(initCleanup(ThisInstance))), 0)
     ELSE CommitTransient(ensureAudioContextRunning(
                            UnmountedTransient(Teardown(ThisTransient, engine))))
  /\ lastOp' = Op("Pause", "none", NULL, NULL)
  /\ staffEffect(FALSE)
  /\ UNCHANGED <<hours, minutes, seconds, milliseconds, masterVolume, soundToggles, soundVolumes,
                 engine, unsupportedReports, manualVars, lookup, showMusicStaff, staffIntervals>>

\* the 1-second interval of the page: a new time sample; the engine is keyed
\* by hours-minutes-seconds, so a changed sample replaces the instance
Sample(h, m, s, ms) ==
  /\ hours' = h /\ minutes' = m /\ seconds' = s /\ milliseconds' = ms
  /\ LET p == [Props EXCEPT !.hours = h, !.minutes = m, !.seconds = s, !.milliseconds = ms] IN
     IF ~isPlaying THEN UNCHANGED <<deviceVars, engineVars, transientVars, logVars>>
     ELSE IF engine = "persistent"
     THEN LET old == initCleanup(ThisInstance)
          IN CommitPersistent(Mount([FreshInstance EXCEPT !.disposed = old.disposed,
                                                        !.timers = old.timers], p), 0)
     ELSE LET old == Teardown(ThisTransient, engine)
          IN CommitTransient(MountTransient(UnmountedTransient(old), p, engine))
  /\ lastOp' = IF isPlaying
               THEN Op("Tick", "none", s, IF engine = "persistent" THEN 0 ELSE Quarter(ms))
               ELSE lastOp
  /\ IF s # seconds THEN staffEffect(isPlaying) ELSE UNCHANGED staffTimeout
  /\ UNCHANGED <<masterVolume, soundToggles, soundVolumes, isPlaying, engine, unsupportedReports, lookup,
                 showMusicStaff, staffIntervals>>

\* a new time sample with a new key
Tick(h, m, s, ms) ==
  /\ Alive
  /\ <<h, m, s>> # <<hours, minutes, seconds>>
  /\ Sample(h, m, s, ms)
  /\ UNCHANGED manualVars

\* the 250 ms interval of the persistent engine
QuarterTick ==
  /\ Alive /\ isPlaying /\ quarterSecondIntervalRef
  /\ \E r \in LayerReads("second") :
       CommitPersistent(RunEffects(ThisInstance, Props, (quarterSecond + 1) % 4, r, {"second"}),
                        (quarterSecond + 1) % 4)
  /\ lastOp' = Op("QuarterTick", "second", seconds, (quarterSecond + 1) % 4)
  /\ UNCHANGED <<hostVars, lookup, staffVars>>

\* the 250 ms interval of the note-per-tick engine; its callback reads the
\* wall clock
SchedulerTick(ws, wms) ==
  /\ Alive /\ isPlaying /\ secondSchedulerRef # NULL
  /\ CommitTransient(secondSchedulerCallback(ThisTransient, [seconds |-> ws, milliseconds |-> wms]))
  /\ lastOp' = Op("SchedulerTick", "second", ws, Quarter(wms))
  /\ UNCHANGED <<hostVars, lookup, staffVars>>

\* the 1 s node-cleanup interval of the note-per-tick engine
CleanupTimer ==
  /\ Alive /\ isPlaying /\ cleanupTimerRef
  /\ CommitTransient(cleanupFinishedNodes(ThisTransient))
  /\ lastOp' = Op("cleanupFinishedNodes", "none", NULL, NULL)
  /\ UNCHANGED <<hostVars, lookup, staffVars>>

toggleSoundComponent(layer) ==
  /\ Alive
  /\ soundToggles' = [soundToggles EXCEPT ![layer] = ~@]
  /\ SettingsInBound(soundToggles', soundVolumes)
  /\ LET p == [Props EXCEPT !.soundToggles = soundToggles'] IN
     IF ~isPlaying THEN UNCHANGED <<deviceVars, engineVars, transientVars, logVars>>
     ELSE IF engine = "persistent"
     THEN \E r \in LayerReads(layer) :
            CommitPersistent(RunEffects(ThisInstance, p, quarterSecond, r, ToggleEffects(layer)),
                             quarterSecond)
     ELSE CommitTransient(Update(ThisTransient, p, engine, layer))
  /\ lastOp' = IF isPlaying
               THEN Op("toggleSoundComponent", layer, seconds,
                       IF engine = "persistent" THEN quarterSecond ELSE Quarter(milliseconds))
               ELSE lastOp
  /\ UNCHANGED <<hours, minutes, seconds, milliseconds, masterVolume, soundVolumes, isPlaying,
                 engine, unsupportedReports, manualVars, lookup, staffVars>>

handleSoundVolumeChange(layer, v) ==
  /\ Alive /\ v # soundVolumes[layer]
  /\ soundVolumes' = [soundVolumes EXCEPT ![layer] = v]
  /\ SettingsInBound(soundToggles, soundVolumes')
  /\ LET p == [Props EXCEPT !.soundVolumes = soundVolumes'] IN
     IF ~isPlaying THEN UNCHANGED <<deviceVars, engineVars, transientVars, logVars>>
     ELSE IF engine = "persistent"
     THEN \E r \in LayerReads(layer) :
            CommitPersistent(RunEffects(ThisInstance, p, quarterSecond, r, VolumeEffects(layer)),
                             quarterSecond)
     ELSE CommitTransient(Update(ThisTransient, p, engine, layer))
  /\ lastOp' = IF isPlaying
               THEN Op("handleSoundVolumeChange", layer, seconds,
                       IF engine = "persistent" THEN quarterSecond ELSE Quarter(milliseconds))
               ELSE lastOp
  /\ UNCHANGED <<hours, minutes, seconds, milliseconds, masterVolume, soundToggles, isPlaying,
                 engine, unsupportedReports, manualVars, lookup, staffVars>>

\* masterVolume is a dependency of the init effect: its cleanup runs, then
\* every effect that names masterVolume
handleMasterVolumeChange(v) ==
  /\ Alive /\ v # masterVolume
  /\ masterVolume' = v
  /\ LET p == [Props EXCEPT !.masterVolume = v] IN
     IF ~isPlaying THEN UNCHANGED <<deviceVars, engineVars, transientVars, logVars>>
     ELSE IF engine = "persistent"
     THEN CommitPersistent(RunEffects([initCleanup(ThisInstance) EXCEPT !.calls = NoCalls],
                                      p, quarterSecond, NoReads, MasterEffects), quarterSecond)
     ELSE CommitTransient(MountTransient(Teardown(ThisTransient, engine), p, engine))
  /\ lastOp' = IF isPlaying
               THEN Op("handleMasterVolumeChange", "none", seconds,
                       IF engine = "persistent" THEN quarterSecond ELSE Quarter(milliseconds))
               ELSE lastOp
  /\ UNCHANGED <<hours, minutes, seconds, milliseconds, soundToggles, soundVolumes, isPlaying,
                 engine, unsupportedReports, manualVars, lookup, staffVars>>

HostNext ==
  \/ Play
  \/ Pause
  \/ \E layer \in Layers : toggleSoundComponent(layer)
  \/ \E layer \in Layers, v \in Volumes : handleSoundVolumeChange(layer, v)
  \/ \E v \in MasterVolumes : handleMasterVolumeChange(v)

\* the page with the persistent-oscillator engine
Next ==
  \/ HostNext
  \/ \E h \in Hours, m \in Minutes, s \in Seconds : Tick(h, m, s, 0)
  \/ QuarterTick

Spec == Init /\ [][Next]_vars

\* the page with the note-per-tick engine, in its current and its first form
InitT ==
  /\ engine \in {"transient", "first"}
  /\ hours \in Hours /\ minutes \in Minutes /\ seconds \in Seconds /\ milliseconds \in Millis
  /\ masterVolume \in MasterVolumes
  /\ soundToggles = [l \in Layers |-> TRUE]
  /\ soundVolumes = [l \in Layers |-> VolSteps]
  /\ Stopped /\ DeviceRunning /\ ClockDrawn
  /\ lookup = NoLookup

NextT ==
  \/ HostNext
  \/ \E h \in Hours, m \in Minutes, s \in Seconds, ms \in Millis : Tick(h, m, s, ms)
  \/ \E ws \in Seconds, wms \in WallMillis : SchedulerTick(ws, wms)
  \/ CleanupTimer

SpecT == InitT /\ [][NextT]_vars

\* the note-per-tick engine alone, with its quarter-second scheduler, under
\* ticks, scheduler callbacks and every settings step
InitS ==
  /\ engine = "transient"
  /\ hours = MaxHour /\ minutes = MaxMinute /\ seconds \in Seconds /\ milliseconds = 0
  /\ masterVolume = MasterSteps
  /\ soundToggles = [l \in Layers |-> TRUE]
  /\ soundVolumes = [l \in Layers |-> VolSteps]
  /\ Stopped /\ DeviceRunning /\ ClockDrawn
  /\ lookup = NoLookup

NextS ==
  \/ Play
  \/ Pause
  \/ \E s \in Seconds, ms \in Millis : Tick(hours, minutes, s, ms)
  \/ \E ws \in Seconds, wms \in WallMillis : SchedulerTick(ws, wms)
  \/ \E layer \in Layers : toggleSoundComponent(layer)
  \/ \E v \in MasterVolumes : handleMasterVolumeChange(v)

SpecS == InitS /\ [][NextS]_vars

\* toggleMusicStaff: the staff is mounted, its effect running, or unmounted,
\* its effect's cleanup running
toggleMusicStaff ==
  /\ Alive
  /\ showMusicStaff' = ~showMusicStaff
  /\ staffTimeout' = (showMusicStaff' /\ isPlaying)
  /\ UNCHANGED <<hostVars, deviceVars, engineVars, transientVars, logVars, lastOp, lookup,
                 staffIntervals>>

\* the alignment timeout of MusicalStaff fires: it starts the 2 s re-render
\* interval; the function it returns, which would clear the interval, is
\* returned to setTimeout and never called
staffTimeoutCallback ==
  /\ Alive /\ staffTimeout /\ staffIntervals < MaxIntervals
  /\ staffTimeout' = FALSE
  /\ staffIntervals' = staffIntervals + 1
  /\ UNCHANGED <<hostVars, deviceVars, engineVars, transientVars, logVars, lastOp, lookup,
                 showMusicStaff>>

\* the page with its staff renderer
InitStaff ==
  /\ engine = "persistent"
  /\ hours = MaxHour /\ minutes = MaxMinute /\ seconds \in Seconds /\ milliseconds = 0
  /\ masterVolume = MasterSteps
  /\ soundToggles = [l \in Layers |-> TRUE]
  /\ soundVolumes = [l \in Layers |-> VolSteps]
  /\ Stopped /\ DeviceRunning /\ ClockDrawn
  /\ lookup = NoLookup

NextStaff ==
  \/ Play
  \/ Pause
  \/ \E s \in Seconds : Tick(hours, minutes, s, 0)
  \/ \E layer \in Layers : toggleSoundComponent(layer)
  \/ toggleMusicStaff
  \/ staffTimeoutCallback

SpecStaff == InitStaff /\ [][NextStaff]_vars

\* a deferred drone cleanup of the shared-context variant fires
CleanupTimeout(i) ==
  /\ Alive /\ isPlaying /\ i \in DOMAIN cleanupTimeouts
  /\ CommitTransient(cleanupTimeout(ThisTransient, i))
  /\ lastOp' = Op("cleanupTimeout", cleanupTimeouts[i].ch, NULL, NULL)
  /\ UNCHANGED <<hostVars, lookup, staffVars>>

\* the page with the shared-context variant of the note-per-tick engine
InitV ==
  /\ engine = "shared"
  /\ hours \in Hours /\ minutes \in Minutes /\ seconds = MaxSecond /\ milliseconds = 0
  /\ masterVolume = MasterSteps
  /\ soundToggles = [l \in Layers |-> TRUE]
  /\ soundVolumes = [l \in Layers |-> VolSteps]
  /\ Stopped /\ DeviceRunning /\ ClockDrawn
  /\ lookup = NoLookup

NextV ==
  \/ Play
  \/ Pause
  \/ \E h \in Hours, m \in Minutes, s \in Seconds : Tick(h, m, s, 0)
  \/ \E layer \in Layers : toggleSoundComponent(layer)
  \/ \E v \in MasterVolumes : handleMasterVolumeChange(v)
  \/ \E i \in 1..MaxPending : CleanupTimeout(i)

SpecV == InitV /\ [][NextV]_vars

\* the page with the persistent-oscillator engine, its 1 s interval sampling
\* the clock at any quarter of the second
InitQ ==
  /\ engine = "persistent"
  /\ hours \in Hours /\ minutes \in Minutes /\ seconds \in Seconds /\ milliseconds \in Millis
  /\ masterVolume = MasterSteps
  /\ soundToggles = [l \in Layers |-> TRUE]
  /\ soundVolumes = [l \in Layers |-> VolSteps]
  /\ Stopped /\ DeviceRunning /\ ClockDrawn
  /\ lookup = NoLookup

NextQ ==
  \/ Play
  \/ Pause
  \/ \E h \in Hours, m \in Minutes, s \in Seconds, ms \in Millis : Tick(h, m, s, ms)
  \/ QuarterTick
  \/ \E v \in MasterVolumes : handleMasterVolumeChange(v)

SpecQ == InitQ /\ [][NextQ]_vars

\* --------------------------------------------------------- audio device
\* a step of the device or of a timer outside the engine's effects: the
\* engine's refs stay, the log of the last step is empty
NoLog ==
  /\ calls' = NoCalls /\ created' = {} /\ disposed' = {} /\ notes' = <<>> /\ stops' = {}
  /\ timers' = {}

\* the browser or the operating system suspends the audio output
Suspend ==
  /\ Alive /\ device \in {"running", "resuming"}
  /\ device' = "suspended"
  /\ NoLog
  /\ lastOp' = Op("Suspend", "none", NULL, NULL)
  /\ UNCHANGED <<hostVars, uncaught, engineVars, transientVars, lookup, staffVars>>

\* the promise of ctx.resume() settles: the output runs again, or the resume
\* is rejected (the rejection is caught and logged)
ResumeDone(ok) ==
  /\ Alive /\ device = "resuming"
  /\ device' = IF ok THEN "running" ELSE "suspended"
  /\ NoLog
  /\ lastOp' = Op("ResumeDone", "none", NULL, NULL)
  /\ UNCHANGED <<hostVars, uncaught, engineVars, transientVars, lookup, staffVars>>

\* the 1 s context self-check interval of the note-per-tick engine
ContextCheck ==
  /\ Alive /\ isPlaying /\ contextCheckInterval
  /\ CommitTransient(ensureContextRunning(ThisTransient))
  /\ lastOp' = Op("ensureContextRunning", "none", NULL, NULL)
  /\ UNCHANGED <<hostVars, lookup, staffVars>>

\* a provider interval that only looks at the state of the context
resumeIntervalNoResume ==
  /\ Alive /\ engine = "persistent" /\ device # "missing"
  /\ device' = device
  /\ NoLog
  /\ lastOp' = Op("resumeInterval", "none", NULL, NULL)
  /\ UNCHANGED <<hostVars, uncaught, engineVars, transientVars, lookup, staffVars>>

\* the 1 s resume interval of the context provider, started only when a
\* context could be created
resumeInterval ==
  /\ Alive /\ engine = "persistent" /\ device # "missing"
  /\ device' = IF device = "suspended" THEN "resuming" ELSE device
  /\ NoLog
  /\ lastOp' = Op("resumeInterval", "none", NULL, NULL)
  /\ UNCHANGED <<hostVars, uncaught, engineVars, transientVars, lookup, staffVars>>

\* the page on a browser whose audio output is missing, or is suspended and
\* resumed during the session; an uncaught exception ends the page
InitD ==
  /\ engine \in {"persistent", "transient"}
  /\ device \in {"running", "missing"}
  /\ unsupportedReports = IF device = "missing" THEN 1 ELSE 0
  /\ hours = MaxHour /\ minutes \in Minutes /\ seconds \in Seconds /\ milliseconds = 0
  /\ masterVolume = MasterSteps
  /\ soundToggles = [l \in Layers |-> TRUE]
  /\ soundVolumes = [l \in Layers |-> VolSteps]
  /\ Stopped /\ ClockDrawn
  /\ lookup = NoLookup

NextD ==
  \/ Play
  \/ Pause
  \/ \E s \in Seconds : Tick(hours, minutes, s, 0)
  \/ QuarterTick
  \/ \E wms \in WallMillis : SchedulerTick(seconds, wms)
  \/ \E layer \in Layers : toggleSoundComponent(layer)
  \/ Suspend
  \/ \E ok \in BOOLEAN : ResumeDone(ok)
  \/ ContextCheck
  \/ resumeInterval

SpecD == InitD /\ [][NextD]_vars

\* the same page with its two 1 s self-check intervals firing as long as they
\* are pending
SpecDFair == SpecD /\ WF_vars(resumeInterval) /\ WF_vars(ContextCheck)

\* ------------------------------------------------------ manual time mode
\* the ends of the clock's ranges
LastHour == 12
LastMinute == 59
LastSecond == 59
\* the seconds the clock is followed for
MaxElapsed == 3
ClockStart == DateAt(MaxHour, MaxMinute, MaxSecond)
\* what the user types into a time field
ManualInputs == {0, MaxSecond, LastMinute + 1}
Fields == {"hours", "minutes", "seconds"}
Max(a, b) == IF a > b THEN a ELSE b

\* setCurrentTime: the page shows the date and hands it to the engine
setCurrentTime(date) ==
  IF <<displayHours(date), getMinutes(date), getSeconds(date)>> = <<hours, minutes, seconds>>
  THEN UNCHANGED <<hours, minutes, seconds, milliseconds, masterVolume, soundToggles, soundVolumes,
                   isPlaying, engine, unsupportedReports, lookup, staffVars,
                   deviceVars, engineVars, transientVars, logVars, lastOp>>
  ELSE Sample(displayHours(date), getMinutes(date), getSeconds(date), 0)

\* the 1 s interval of the page: the next reading of the clock
timeInterval ==
  /\ Alive /\ wallClock < ClockStart + MaxElapsed
  /\ wallClock' = wallClock + 1
  /\ IF ~useManualTime
     THEN /\ setCurrentTime(wallClock')
          /\ inputValues' = [hours |-> displayHours(wallClock'), minutes |-> getMinutes(wallClock'),
                             seconds |-> getSeconds(wallClock')]
     ELSE /\ manualTimeBase # NULL
          /\ setCurrentTime(wallClock' - manualTimeBase + manualTimeOffset)
          /\ UNCHANGED inputValues
  /\ UNCHANGED <<useManualTime, manualTimeBase, manualTimeOffset>>

toggleTimeMode ==
  /\ Alive
  /\ useManualTime' = ~useManualTime
  /\ IF ~useManualTime
     THEN /\ manualTimeBase' = wallClock
          /\ inputValues' = [hours |-> displayHours(wallClock), minutes |-> getMinutes(wallClock),
                             seconds |-> getSeconds(wallClock)]
     ELSE /\ manualTimeBase' = NULL
          /\ UNCHANGED inputValues
  /\ manualTimeOffset' = 0
  /\ UNCHANGED <<hours, minutes, seconds, milliseconds, masterVolume, soundToggles, soundVolumes,
                 isPlaying, engine, unsupportedReports, lookup, staffVars, wallClock,
                 deviceVars, engineVars, transientVars, logVars, lastOp>>

\* a number typed into a field of the manual time form
handleManualTimeChange(field, numValue) ==
  /\ Alive /\ useManualTime
  /\ LET validValue == IF field = "hours"
                       THEN (IF Max(0, Min(LastHour, numValue)) = 0 THEN LastHour
                             ELSE Max(0, Min(LastHour, numValue)))
                       ELSE Max(0, Min(LastMinute, numValue))
         newDate == setHours(wallClock,
                             IF field = "hours" THEN validValue % 12 ELSE inputValues.hours % 12,
                             IF field = "minutes" THEN validValue ELSE inputValues.minutes,
                             IF field = "seconds" THEN validValue ELSE inputValues.seconds)
     IN /\ inputValues' = [inputValues EXCEPT ![field] = validValue]
        /\ setCurrentTime(newDate)
        /\ manualTimeBase' = wallClock
        /\ manualTimeOffset' = newDate - wallClock
  /\ UNCHANGED <<wallClock, useManualTime>>

\* the page in real-time and manual time mode, following the clock
InitM ==
  /\ engine = "persistent"
  /\ hours = MaxHour /\ minutes = MaxMinute /\ seconds = MaxSecond /\ milliseconds = 0
  /\ masterVolume = MasterSteps
  /\ soundToggles = [l \in Layers |-> TRUE]
  /\ soundVolumes = [l \in Layers |-> VolSteps]
  /\ Stopped /\ DeviceRunning /\ RealTime
  /\ lookup = NoLookup

NextM ==
  \/ Play
  \/ Pause
  \/ timeInterval
  \/ toggleTimeMode
  \/ \E field \in Fields, v \in ManualInputs : handleManualTimeChange(field, v)

SpecM == InitM /\ [][NextM]_vars

\* one time sample of the whole clock range, played by either engine in
\* real-time mode: the wall clock reads the second of the sample
InitSample ==
  /\ engine \in {"persistent", "transient"}
  /\ hours = LastHour /\ minutes \in 0..LastMinute /\ seconds \in 0..LastSecond
  /\ milliseconds = 0
  /\ masterVolume = MasterSteps
  /\ soundToggles \in {t \in [Layers -> BOOLEAN] : t["reference"] /\ t["hour"] /\ (t["minute"] \/ t["second"])}
  /\ soundVolumes = [l \in Layers |-> VolSteps]
  /\ Stopped /\ DeviceRunning /\ ClockDrawn
  /\ lookup = NoLookup

\* the next second of the running clock, short of the hour's end
NextSecond ==
  /\ ~(minutes = LastMinute /\ seconds = LastSecond)
  /\ Tick(hours, IF seconds = LastSecond THEN minutes + 1 ELSE minutes,
          (seconds + 1) % (LastSecond + 1), 0)

NextSample ==
  \/ Play
  \/ NextSecond
  \/ QuarterTick
  \/ \E wms \in WallMillis : SchedulerTick(seconds, wms)

SpecSample == InitSample /\ [][NextSample]_vars

\* the pitch lookups applied to a bare value
LookupValues == 0..LastHour
Components == {"hour", "minuteTens", "minuteOnes", "secondTens", "secondOnes"}

\* the lookups of components/audio-engine.tsx
engineNote(component, value) ==
  CASE component = "hour" -> getHourNote(value)
    [] component = "minuteTens" -> getMinuteTensNote(value)
    [] component = "minuteOnes" -> getMinuteOnesNote(value)
    [] component = "secondTens" -> getSecondTensNote(value)
    [] OTHER -> getSecondOnesNote(value)

InitNotes ==
  /\ engine = "persistent"
  /\ hours = LastHour /\ minutes = 0 /\ seconds = 0 /\ milliseconds = 0
  /\ masterVolume = MasterSteps
  /\ soundToggles = [l \in Layers |-> TRUE]
  /\ soundVolumes = [l \in Layers |-> VolSteps]
  /\ Stopped /\ DeviceRunning /\ ClockDrawn
  /\ lookup \in {[fn |-> "none", component |-> "none", value |-> v, note |-> "none"] : v \in LookupValues}

Looked(fn, component, note) ==
  /\ lookup.fn = "none"
  /\ lookup' = [fn |-> fn, component |-> component, value |-> lookup.value, note |-> note]
  /\ UNCHANGED <<hostVars, deviceVars, engineVars, transientVars, logVars, lastOp, staffVars>>

lookupTimeNote(component) == Looked("getTimeNote", component, getTimeNote(component, lookup.value))
lookupEngineNote(component) == Looked("engineNote", component, engineNote(component, lookup.value))
lookupHourNoteV1 == Looked("getHourNoteV1", "hour", getHourNoteV1(lookup.value))

NextNotes ==
  \/ \E component \in Components : lookupTimeNote(component)
  \/ \E component \in Components : lookupEngineNote(component)
  \/ lookupHourNoteV1

SpecNotes == InitNotes /\ [][NextNotes]_vars

\* ------------------------------------------------------------------ claims
\* the gain a channel's voice is driven to by the automation last issued to it
TargetGain(ch) == PeakValue(oscillatorSetups[ch].gainParam)
\* the notes the last step of the note-per-tick engine triggered on a channel
NotesOn(ch) == {i \in DOMAIN notes : notes[i].ch = ch}
\* a channel has been set sounding
Sounding(ch) == IF engine = "persistent" THEN TargetGain(ch) > 0 ELSE NotesOn(ch) # {}
SoundsAt(ch, frequency) ==
  IF engine = "persistent"
  THEN TargetGain(ch) > 0 /\ oscillatorSetups[ch].frequency = frequency
  ELSE NotesOn(ch) # {} /\ \A i \in NotesOn(ch) : notes[i].frequency = frequency
TablePitch(table, digit) == NOTE_FREQUENCIES[table[digit + 1]]

\* C1: in the persistent engine at most one sub-channel of the minute pair and
\* at most one sub-channel of the second pair has a non-zero target gain
C1_MutualExclusion ==
  /\ ~(TargetGain("minuteTens") > 0 /\ TargetGain("minuteOnes") > 0)
  /\ ~(TargetGain("secondTens") > 0 /\ TargetGain("secondOnes") > 0)
\* a quarter tick has moved the second pair from tens to ones while a minute
\* digit sounds
C1_Witness ==
  /\ lastOp.op = "QuarterTick" /\ quarterSecond = 1
  /\ TargetGain("secondOnes") > 0 /\ seconds \div 10 > 0
  /\ (TargetGain("minuteTens") > 0 \/ TargetGain("minuteOnes") > 0)

\* C2: between engine start and engine stop no 1-second tick, quarter tick,
\* toggle change or channel volume change creates, stops or disposes a
\* channel's generator
C2_VoicesPersist ==
  (isPlaying /\ lastOp.op \in {"Tick", "QuarterTick", "toggleSoundComponent", "handleSoundVolumeChange"})
    => (created = {} /\ disposed = {})

\* the minute sub-channel a second selects, its digit and its table
MinuteSelected == IF seconds % 2 = 0 THEN "minuteTens" ELSE "minuteOnes"
MinuteOther == IF seconds % 2 = 0 THEN "minuteOnes" ELSE "minuteTens"
MinuteDigit == IF seconds % 2 = 0 THEN minutes \div 10 ELSE minutes % 10
MinuteTable == IF seconds % 2 = 0 THEN MINUTE_TENS_NOTES ELSE MINUTE_ONES_NOTES

\* C3: with the minute layer enabled the per-second update selects minute-tens
\* on even seconds and minute-ones on odd seconds, sounds the selected digit at
\* its table pitch (a digit 0 being a rest) and leaves the other sub-channel
\* silent, for every minute and second of the clock
C3_MinuteAlternation ==
  (isPlaying /\ lastOp.op \in {"Play", "Tick"} /\ soundToggles["minute"]) =>
    /\ ~Sounding(MinuteOther)
    /\ MinuteDigit > 0 => SoundsAt(MinuteSelected, TablePitch(MinuteTable, MinuteDigit))
    /\ MinuteDigit = 0 => ~Sounding(MinuteSelected)
\* 35 minutes at second 36: the tick sounds tens (3) at E4, ones is silent
C3_Witness ==
  /\ lastOp.op = "Tick" /\ minutes = 35 /\ seconds = 36 /\ soundToggles["minute"]
  /\ SoundsAt("minuteTens", NOTE_FREQUENCIES["E4"]) /\ ~Sounding("minuteOnes")

\* the second sub-channel the last step selected, its digit and its table
SecondSelected == IF lastOp.phase \in {0, 2} THEN "secondTens" ELSE "secondOnes"
SecondOther == IF lastOp.phase \in {0, 2} THEN "secondOnes" ELSE "secondTens"
SecondDigit == IF lastOp.phase \in {0, 2} THEN lastOp.second \div 10 ELSE lastOp.second % 10
SecondTable == IF lastOp.phase \in {0, 2} THEN SECOND_TENS_NOTES ELSE SECOND_ONES_NOTES
SecondSteps == {"Play", "Tick", "QuarterTick", "SchedulerTick"}

\* C4: with the second layer enabled every quarter-second step selects
\* second-tens in quarter-phases 0 and 2 and second-ones in phases 1 and 3,
\* sounds the selected digit at its table pitch (a digit 0 being a rest) and
\* leaves the other sub-channel untriggered, for every second of the clock
C4_SecondAlternation ==
  (isPlaying /\ lastOp.op \in SecondSteps /\ soundToggles["second"]) =>
    /\ ~Sounding(SecondOther)
    /\ SecondDigit > 0 => SoundsAt(SecondSelected, TablePitch(SecondTable, SecondDigit))
    /\ SecondDigit = 0 => ~Sounding(SecondSelected)
\* second 42 in quarter-phase 3: ones (2) sounds at D5, tens is not triggered
C4_Witness ==
  /\ lastOp.op \in {"QuarterTick", "SchedulerTick"} /\ lastOp.second = 42 /\ lastOp.phase = 3
  /\ SoundsAt("secondOnes", NOTE_FREQUENCIES["D5"]) /\ ~Sounding("secondTens")

\* C5: whenever the digit of the selected minute or second sub-channel is 0,
\* that sub-channel is not triggered and carries no target gain, whether the
\* layer is enabled or not
C5_ZeroIsRest ==
  isPlaying =>
    /\ MinuteDigit = 0 => ~Sounding(MinuteSelected)
    /\ (lastOp.op \in SecondSteps /\ SecondDigit = 0) => ~Sounding(SecondSelected)
\* 05:40 in quarter-phase 1 with both layers enabled: minute-tens and
\* second-ones are the selected sub-channels and both rest
C5_Witness ==
  /\ isPlaying /\ minutes = 5 /\ seconds = 40
  /\ lastOp.op \in {"QuarterTick", "SchedulerTick"} /\ lastOp.phase = 1
  /\ soundToggles["minute"] /\ soundToggles["second"]
  /\ MinuteSelected = "minuteTens" /\ SecondSelected = "secondOnes"
  /\ ~Sounding("minuteTens") /\ ~Sounding("secondOnes")

\* the guide that documents the hour table a lookup reads
Documented(fn) == IF fn = "engineNote" THEN hourIntervals ELSE hourIntervalsTransposed

EffectiveVolume(ch) ==
  IF soundToggles[LayerOf(ch)] THEN 10 * soundVolumes[LayerOf(ch)] * masterVolume ELSE 0

\* C7: the gain at which a drone reaches the output, its voice gain times the
\* gain of the master node it is routed through, equals channel volume x
\* toggle x master volume and is at most 1
C7_EffectiveVolume ==
  (engine = "persistent" /\ isPlaying /\ isInitializedRef) =>
    \A ch \in {"reference", "hour"} :
      /\ FinalValue(oscillatorSetups[ch].gainParam) * FinalValue(localMasterGainRef.gainParam)
           = EffectiveVolume(ch) * MasterSteps
      /\ FinalValue(oscillatorSetups[ch].gainParam) * FinalValue(localMasterGainRef.gainParam)
           <= GainOne * MasterSteps

\* a ramp to the value the parameter already has
Redundant(call) == call.op = "ramp" /\ call.v = call.from

\* C8: a quarter tick re-applies the second-layer update with the same second,
\* toggle and volume; it issues no ramp towards a value the parameter already
\* has (no frequency ramp for an unchanged pitch, no restarted gain ramp)
C8_Idempotent ==
  (isPlaying /\ lastOp.op = "QuarterTick" /\ masterVolume > 0 /\ soundVolumes["second"] > 0) =>
    \A ch \in {"secondTens", "secondOnes"} :
      \A i \in DOMAIN calls[ch] : ~Redundant(calls[ch][i])

\* C9: a step that toggles an audible layer off stops no generator without a
\* fade of non-zero duration before the stop
C9_ToggleOffFades ==
  (/\ isPlaying /\ lastOp.op = "toggleSoundComponent" /\ ~soundToggles[lastOp.layer]
   /\ masterVolume > 0 /\ soundVolumes[lastOp.layer] > 0) =>
    \A st \in stops : st.fade > 0 /\ st.delay >= st.fade

\* C10: toggling the hour layer on right after toggling it off (the hour
\* unchanged) creates no hour generator and issues only gain automation on the
\* hour channel
C10_HourReenable ==
  [][(/\ engine = "transient" /\ isPlaying /\ lastOp.op = "toggleSoundComponent" /\ lastOp.layer = "hour"
      /\ ~soundToggles["hour"] /\ soundToggles'["hour"])
     => (/\ "hour" \notin created'
         /\ \A i \in DOMAIN calls'["hour"] : calls'["hour"][i].param = "gain")]_vars

\* C11: a step that toggles one layer or changes one layer's volume issues no
\* automation, triggers no note and creates or disposes no generator on a
\* channel of another layer
C11_Independent ==
  (engine = "transient" /\ isPlaying /\ lastOp.op \in {"toggleSoundComponent", "handleSoundVolumeChange"}) =>
    \A ch \in Channels :
      LayerOf(ch) # lastOp.layer =>
        /\ calls[ch] = <<>> /\ NotesOn(ch) = {}
        /\ ch \notin created /\ ch \notin disposed

\* the calls of a step on one parameter that were issued on a generator the
\* step itself created: a new parameter holds no automation to supersede
OnNewGenerator(ch, cs, i) ==
  /\ ch \in created
  /\ \E j \in 1..(i - 1) : cs[j].param = cs[i].param /\ cs[j].op = "set" /\ cs[j].v = 0 /\ cs[j].from = 0
Superseding(cs, i) ==
  \E j \in 1..(i - 1) : cs[j].param = cs[i].param /\ cs[j].op = "cancel"

\* C12: every ramp a step schedules on a parameter of an existing voice
\* (frequency change, gain change, silence) comes after a cancel of the
\* automation already scheduled on that parameter in the same operation
C12_CancelAndSupersede ==
  \A ch \in Channels :
    \A i \in 1..Len(calls[ch]) :
      calls[ch][i].op = "ramp" =>
        Superseding(calls[ch], i) \/ OnNewGenerator(ch, calls[ch], i)

\* C13: no zero-duration step moves a parameter of a voice off the value it
\* currently has while the voice's gain is non-zero: a set either re-states
\* the current value or starts from 0
C13_NoDiscontinuity ==
  \A ch \in Channels :
    \A i \in 1..Len(calls[ch]) :
      (calls[ch][i].op = "set" /\ calls[ch][i].param = "gain") =>
        (calls[ch][i].from = 0 \/ calls[ch][i].v = calls[ch][i].from)

\* C14: the generators the engine tracks never outnumber those of one drone
\* per drone channel, whatever the sequence of ticks, hour changes and toggles
C14_BoundedSources ==
  engine = "transient" => activeSourcesRef <= PadGenerators * Cardinality(DroneChannels)

\* the engine of the page is mounted and its timers run
Mounted ==
  IF engine = "persistent" THEN isInitializedRef /\ quarterSecondIntervalRef
  ELSE audioContextRef = "running" /\ contextCheckInterval

\* C15: a tick that arrives while the audio device is suspended, or after it
\* runs again, is processed without error: the engine is mounted, a resume of
\* a suspended device has been requested, and the drones, the selected minute
\* digit and the selected second digit are those of the tick's own sample and
\* settings, with nothing triggered for any other digit
C15_SuspendedDevice ==
  (isPlaying /\ lastOp.op = "Tick" /\ device # "missing") =>
    /\ uncaught = "none"
    /\ Mounted
    /\ device \in {"running", "resuming"}
    /\ \A ch \in DroneChannels : Sounding(ch) <=> soundToggles[ch]
    /\ soundToggles["minute"] =>
         /\ ~Sounding(MinuteOther)
         /\ MinuteDigit > 0 => SoundsAt(MinuteSelected, TablePitch(MinuteTable, MinuteDigit))
    /\ soundToggles["second"] =>
         /\ ~Sounding(SecondOther)
         /\ SecondDigit > 0 => SoundsAt(SecondSelected, TablePitch(SecondTable, SecondDigit))
\* a tick found the device suspended: the resume is pending and the minute
\* digit of the new sample sounds
C15_Witness ==
  /\ isPlaying /\ lastOp.op = "Tick" /\ device = "resuming"
  /\ Sounding(MinuteSelected) /\ Sounding("reference")

\* the table a digit lookup reads, and the engines' test for sounding a digit
DigitTable(component) ==
  CASE component = "minuteTens" -> MINUTE_TENS_NOTES
    [] component = "minuteOnes" -> MINUTE_ONES_NOTES
    [] component = "secondTens" -> SECOND_TENS_NOTES
    [] OTHER -> SECOND_ONES_NOTES
playsDigit(digit) == digit > 0

C17_SilentNoOp ==
  (device = "missing" /\ lastOp.op # "none") =>
    /\ uncaught = "none"
    /\ calls = NoCalls /\ notes = <<>> /\ created = {}
    /\ ~quarterSecondIntervalRef /\ secondSchedulerRef = NULL
    /\ ~contextCheckInterval /\ ~cleanupTimerRef
    /\ unsupportedReports = 1

\* the initialized flag, the voice references and the timers of the rendered
\* engine agree: all set, or none
Consistent ==
  IF engine = "persistent"
  THEN /\ isInitializedRef <=> quarterSecondIntervalRef
       /\ \A ch \in Channels : isInitializedRef <=> oscillatorSetups[ch].oscillator = "live"
       /\ isInitializedRef <=> localMasterGainRef.node = "live"
  ELSE /\ (audioContextRef = "running") <=> (masterGainRef # NULL)
       /\ (audioContextRef = "running") <=> contextCheckInterval
       /\ (audioContextRef = "running") <=> cleanupTimerRef
       /\ audioContextRef # "running" =>
            (secondSchedulerRef = NULL /\ referenceSourceRef = "null" /\ hourSourceRef = "null")

\* C18: no exception escapes a start, a tick, a settings update or a
\* teardown, and every such step leaves the flag, the voice references and
\* the timers of the engine in agreement
C18_NoEscape ==
  lastOp.op \in {"Play", "Pause", "Tick", "QuarterTick", "SchedulerTick", "toggleSoundComponent"} =>
    (uncaught = "none" /\ Consistent)

\* C19: when the engine has been torn down none of its timers is pending: the
\* device self-check, quarter-second and node-cleanup intervals are cleared
\* and the teardown has left no deferred stop to fire later
C19_NoTimerAfterTeardown ==
  (~isPlaying /\ lastOp.op = "Pause") =>
    /\ ~quarterSecondIntervalRef /\ secondSchedulerRef = NULL
    /\ ~contextCheckInterval /\ ~cleanupTimerRef
    /\ \A st \in stops : st.delay = 0

\* C20: in manual time mode the sample shown and handed to the engine is the
\* time the user set (manualTimeBase + manualTimeOffset, the wall time itself
\* after a switch to manual mode) advanced by the seconds elapsed since
C20_ManualTimeAdvances ==
  (useManualTime /\ manualTimeBase # NULL) =>
    LET elapsed == wallClock - manualTimeBase
        expected == manualTimeBase + manualTimeOffset + elapsed
    IN <<hours, minutes, seconds>>
         = <<displayHours(expected), getMinutes(expected), getSeconds(expected)>>

\* C21: in the persistent engine, whenever the hour channel is driven to a
\* non-zero gain, the frequency its generator is set to is the table pitch of
\* the current hours value
C21_HourPitch ==
  (engine = "persistent" /\ isPlaying /\ TargetGain("hour") > 0) =>
    oscillatorSetups["hour"].frequency = getNoteFrequency(getTimeNote("hour", hours))

\* C22: the hour generator created for the current hour stays live and
\* referenced until the next hour change, toggle-off of the hour layer or
\* engine stop: no other step, and no deferred cleanup of a previous
\* generator, stops or releases it
C22_NewHourStaysLive ==
  [][(/\ engine = "shared" /\ isPlaying /\ isPlaying'
      /\ hourSourceRef = "live" /\ lastPlayedHourRef = hours /\ hours' = hours
      /\ soundToggles["hour"] /\ soundToggles'["hour"])
     => (hourSourceRef' = "live" /\ "hour" \notin disposed')]_vars

\* the generator and the scheduled gain of a drone channel
DroneSource(ch) == IF ch = "reference" THEN referenceSourceRef ELSE hourSourceRef
DroneGain(ch) == IF ch = "reference" THEN referenceGainRef ELSE hourGainRef

\* C23: a deferred cleanup that fires after its drone channel has been
\* toggled on again leaves the channel live at its effective volume
C23_ReenabledStaysLive ==
  (/\ engine = "shared" /\ isPlaying /\ lastOp.op = "cleanupTimeout"
   /\ soundToggles[lastOp.layer]) =>
    /\ DroneSource(lastOp.layer) = "live"
    /\ DroneGain(lastOp.layer) = 12 * soundVolumes[lastOp.layer] * masterVolume

\* the wall-clock quarter at a step of the persistent engine: the quarter of
\* the sample the instance was mounted with, advanced by the 250 ms intervals
\* that have elapsed since
WallQuarter == (Quarter(milliseconds) + quarterSecond) % 4

\* C24: the quarter-phase index the persistent engine uses is the wall-clock
\* quarter floor(ms / 250) of the current second: the second-layer update of
\* a 1-second tick, from which the quarter-second ticks count on, uses the
\* quarter its sample was taken in
C24_WallQuarter ==
  (engine = "persistent" /\ isPlaying /\ lastOp.op = "Tick") => lastOp.phase = WallQuarter

\* the steps that change a setting while the sample stays the same
SettingsSteps == {"toggleSoundComponent", "handleSoundVolumeChange", "handleMasterVolumeChange"}

\* C25: between two 1-second ticks the minute layer is triggered at most once
\* and the second layer once per quarter-second: a change of the master
\* volume or of a drone's setting, coming after the tick has played the
\* sample, triggers no further minute-layer or second-layer note
C25_NoteBudget ==
  (/\ engine = "transient" /\ isPlaying /\ lastOp.op \in SettingsSteps
   /\ lastOp.layer \notin {"minute", "second"}
   /\ soundToggles["minute"] /\ soundToggles["second"] /\ masterVolume > 0) =>
    \A ch \in Channels : LayerOf(ch) \in {"minute", "second"} => NotesOn(ch) = {}

\* C26: a 1-second tick or a change of the settings of another layer neither
\* cancels nor re-creates the quarter-second timer of the running engine
QuarterTimers == {"quarterSecond", "secondScheduler"}

C26_TimerUntouched ==
  (/\ engine \in {"persistent", "transient"} /\ isPlaying
   /\ lastOp.op \in {"Tick"} \cup SettingsSteps /\ lastOp.layer # "second") =>
    \A t \in timers : t.timer \notin QuarterTimers

\* C27: every second-layer note the 250 ms timer callback triggers uses the
\* digits floor(s/10) and s mod 10 of the time sample the engine holds
C27_SampleDigits ==
  (engine = "transient" /\ isPlaying /\ lastOp.op = "SchedulerTick") =>
    /\ \A i \in NotesOn("secondTens") :
         seconds \div 10 > 0 /\ notes[i].note = getSecondTensNote(seconds \div 10)
    /\ \A i \in NotesOn("secondOnes") :
         seconds % 10 > 0 /\ notes[i].note = getSecondOnesNote(seconds % 10)

\* C28: a change of the master volume while the engine runs creates and
\* releases no voice and neither clears nor starts the quarter-second timer
C28_MasterVolumeOnlyGains ==
  (isPlaying /\ lastOp.op = "handleMasterVolumeChange") =>
    /\ created = {} /\ disposed = {}
    /\ \A t \in timers : t.timer \notin QuarterTimers

\* C29: a handler of the persistent engine that runs while the audio device
\* is not running requests its resumption and issues no automation against it
HandlerSteps == {"Tick", "QuarterTick"} \cup SettingsSteps

C29_NoAutomationWhileSuspended ==
  (/\ engine = "persistent" /\ isPlaying /\ lastOp.op \in HandlerSteps
   /\ device \in {"suspended", "resuming"}) =>
    /\ device = "resuming"
    /\ calls = NoCalls

\* C30: whenever the audio device is suspended while the engine runs, a resume
\* is requested without any tick, quarter tick or user step being needed, also
\* after a resume that failed
SelfChecks == {"resumeInterval", "ensureContextRunning"}

C30_ResumeAttempted ==
  (isPlaying /\ device = "suspended") ~> (device # "suspended" \/ ~isPlaying)
\* a self-check has found the device suspended and requested the resume
C30_Witness ==
  isPlaying /\ lastOp.op \in SelfChecks /\ device = "resuming"

\* C31: a tick that arrives while a layer is toggled off issues no frequency
\* automation on the voices of that layer
FrequencyCalls(ch) == {i \in DOMAIN calls[ch] : calls[ch][i].param = "frequency"}

C31_DisabledFrequencyUntouched ==
  (engine = "persistent" /\ isPlaying /\ lastOp.op = "Tick") =>
    \A ch \in Channels : ~soundToggles[LayerOf(ch)] => FrequencyCalls(ch) = {}

\* the ramps a step issued on a channel, and the time each ramp takes: a ramp
\* that follows another ramp starts where that one ends
Ramps(ch) == {i \in DOMAIN calls[ch] : calls[ch][i].op = "ramp"}
RampDuration(ch, i) ==
  IF i > 1 /\ calls[ch][i - 1].op = "ramp" /\ calls[ch][i - 1].param = calls[ch][i].param
  THEN calls[ch][i].d - calls[ch][i - 1].d
  ELSE calls[ch][i].d
ToggledOff(ch) ==
  lastOp.op = "toggleSoundComponent" /\ lastOp.layer = LayerOf(ch) /\ ~soundToggles[LayerOf(ch)]

\* C32: every ramp the persistent engine issues lasts at least 20 ms on a
\* frequency, 20 ms on a rising gain, 50 ms on a falling gain, and 100 ms on
\* the falling gain of a channel that has just been toggled off
C32_MinimumRamps ==
  (engine = "persistent" /\ isPlaying) =>
    \A ch \in Channels : \A i \in Ramps(ch) :
      LET c == calls[ch][i] IN
      /\ c.param = "frequency" => RampDuration(ch, i) >= 20
      /\ (c.param = "gain" /\ c.v > c.from) => RampDuration(ch, i) >= 20
      /\ (c.param = "gain" /\ c.v < c.from) => RampDuration(ch, i) >= 50
      /\ (c.param = "gain" /\ c.v < c.from /\ ToggledOff(ch)) => RampDuration(ch, i) >= 100

\* a drone that is on at a non-zero volume sounds as long as the engine runs
DroneAudible(ch) == soundToggles[ch] /\ soundVolumes[ch] > 0 /\ masterVolume > 0
FadesOut(ch) ==
  \E i \in Ramps(ch) : calls[ch][i].param = "gain" /\ calls[ch][i].v = 0 /\ calls[ch][i].d > 0

\* C33: the teardown of the engine ramps every sounding drone to silence
\* before it stops and releases the drone's generator
C33_TeardownFades ==
  (~isPlaying /\ lastOp.op = "Pause") =>
    \A ch \in DroneChannels : (ch \in disposed /\ DroneAudible(ch)) => FadesOut(ch)

\* C34: at most one quarter-second scheduler interval of the note-per-tick
\* engine is alive, it is the one secondSchedulerRef holds, and none is alive
\* while the second layer is off or the engine is torn down
C34_OneScheduler ==
  engine = "transient" =>
    /\ liveSchedulers <= 1
    /\ liveSchedulers = (IF secondSchedulerRef # NULL THEN 1 ELSE 0)
    /\ (~soundToggles["second"] \/ ~isPlaying) => liveSchedulers = 0
\* a settings step has cleared the scheduler it found and started a new one
C34_Witness ==
  /\ engine = "transient" /\ isPlaying /\ lastOp.op \in SettingsSteps
  /\ Cleared("secondScheduler") \in timers /\ Started("secondScheduler") \in timers
  /\ liveSchedulers = 1

\* C35: for every hour value the hour lookup of the note-per-tick engine
\* returns the note the audio utilities return for that hour
C35_HourTablesAgree ==
  (lookup.fn = "engineNote" /\ lookup.component = "hour") =>
    lookup.note = getTimeNote("hour", lookup.value)

\* C36: at most one 2 s re-render interval of the staff renderer is alive,
\* and none is alive while isPlaying is false or the staff is not mounted
C36_OneRenderInterval ==
  /\ staffIntervals <= 1
  /\ (~isPlaying \/ ~showMusicStaff) => staffIntervals = 0

====
